---- MODULE Spec2Model ----
(***************************************************************************)
(* Model of the distributed scraper: the shared Redis dedup set            *)
(* (main.py, RedisDedup), the worker's fetch/check/mark/buffer/flush path  *)
(* (main.py, DistributedScraper), the work-unit queue initialisation       *)
(* (init_queue.py) and the adaptive batch-size controller (adjust_rate).   *)
(*                                                                         *)
(* Every await on the shared store is one step: the command executes in    *)
(* the store and the awaiting coroutine resumes with its reply.            *)
(***************************************************************************)
EXTENDS Integers, Sequences, FiniteSets, Bags, TLC

\* ------------------------------------------------------------------------
\* Universe of the model
\* ------------------------------------------------------------------------

\* worker processes (nodes); each owns one RedisDedup handle
Workers == {"w1", "w2"}

\* record identifiers, str(p.get('id'))
PRODUCT_IDS == {"7", "9"}

\* number of RedisDedup calls the store harness issues
MaxCalls == 3

\* argument lists of add_seen_batch the store harness tries: empty, single,
\* with a repeated identifier, with distinct identifiers
BatchArgs == {<<>>, <<"7">>, <<"9", "9">>, <<"7", "9">>, <<"9", "7", "9">>}

\* fetch_one coroutines of one round (fetch_batch gathers them)
Tasks == {"t1", "t2"}

\* rounds one worker runs, over all its process lifetimes
MaxRounds == 2

\* longest product list of one API response
MaxProducts == 1

\* largest --target the runs are started with
MaxTarget == 2

\* config.py SAVE_INTERVAL (500), scaled to the size of the runs
SAVE_INTERVAL == 2

\* queue initialisers (runs of init_queue.py)
Inits == {"i1", "i2"}

\* largest ID_RANGE_END an initialiser running alone is configured with
MaxRangeEnd == 6

\* largest CHUNK_SIZE an initialiser running alone is configured with
MaxChunkSize == 3

\* <<ID_RANGE_START, ID_RANGE_END, CHUNK_SIZE>> of the runs with concurrent
\* initialisers and workers: one unit, two units with the last one clipped,
\* four units
QueueConfigs == {<<0, 1, 1>>, <<0, 3, 2>>, <<0, 4, 1>>}

\* init_queue.py batch_size (1000 units per RPUSH), scaled to the size of the runs
PUSH_BATCH_SIZE == 2

\* releases of a claimed unit back to the queue, over all workers
MaxReleases == 1

\* successful claims, over all workers
MaxClaims == 3

\* consecutive shrinking adjustments within which the batch size must have
\* reached its minimum
ShrinkRounds == 10

\* times the stream of rounds changes from one pattern of outcomes to another
MaxSwitches == 1

\* config.py BATCH_SIZE
BATCH_SIZE == 100

\* config.py REQUEST_TIMEOUT, seconds
REQUEST_TIMEOUT == 30

\* main.py 135: self.min_batch_size
min_batch_size == 10

\* main.py 136: self.max_batch_size = BATCH_SIZE
max_batch_size == BATCH_SIZE

\* main.py 137: deque(maxlen=50)
response_times_maxlen == 50

\* main.py 108: expire(REDIS_NODE_STATUS_KEY, 300), seconds
NODE_STATUS_TTL == 300

\* seconds that pass in one step of the clock
TickSeconds == 100

\* failures of file and store operations injected into one behaviour
MaxFaults == 2

\* the clock stops at this time
MaxTime == 700

\* main.py 140: self.throttle_threshold = 5.0, seconds
throttle_threshold == 5

\* main.py 141: self.error_threshold = 0.3, as numerator and denominator
error_threshold == <<3, 10>>

VARIABLES
    seen_ids,        \* the Redis set REDIS_SEEN_IDS_KEY, shared by all nodes
    connected,       \* RedisDedup.connected, per handle
    hist,            \* store harness: the calls made so far with their returns
    wpc,             \* worker: where run() stands
    use_redis,       \* DistributedScraper.use_redis
    local_seen_ids,  \* DistributedScraper.local_seen_ids
    products_buffer, \* DistributedScraper.products_buffer (records, by id)
    unique_products, \* DistributedScraper.unique_products
    last_save_count, \* run(): last_save_count
    target,          \* DistributedScraper.target
    task,            \* the fetch_one coroutines of the current round
    output_file,     \* OUTPUT_FILE: header row and data rows, per node
    seen_ids_file,   \* SEEN_IDS_FILE: one identifier per line, per node
    rounds,          \* rounds started so far (bounds the runs)
    life_start,      \* rows of output_file present when this process started
    ID_RANGE_START,  \* config.py ID_RANGE_START
    ID_RANGE_END,    \* config.py ID_RANGE_END
    CHUNK_SIZE,      \* config.py CHUNK_SIZE
    queue,           \* the Redis list REDIS_QUEUE_KEY, head first
    ipc,             \* init_queue: where the run stands
    clear,           \* init_queue: the clear argument
    current_len,     \* init_queue: current_len
    chunks,          \* init_queue: chunks
    push_index,      \* init_queue: the loop variable i of the batched push
    solo,            \* init_queue: no other process has changed the queue since this run started
    held,            \* worker: the work unit it has claimed, <<>> if none
    consumed,        \* work units fully processed (a bag)
    loaded,          \* work units put into the system by initialisation (a bag)
    push_log,        \* the units pushed and not cleared, in the order of the pushes
    claim_log,       \* the units claims returned, in the order of the claims
    releases,        \* releases so far (bounds the runs)
    current_batch_size, \* controller: self.current_batch_size
    response_times,  \* controller: self.response_times, oldest first
    success_count,   \* controller: self.success_count
    error_count,     \* controller: self.error_count
    streak,          \* consecutive adjustments that saw the throttle condition (> 0) or the growth condition (< 0)
    floored,         \* the throttle condition has held for ShrinkRounds consecutive adjustments
    last_pattern,    \* the pattern of outcomes of the last round, <<>> before the first
    switches,        \* changes of pattern so far (bounds the runs)
    node_status,     \* the Redis hash REDIS_NODE_STATUS_KEY: node -> last_update of its entry
    expire_at,       \* the time at which Redis expires REDIS_NODE_STATUS_KEY, -1: no expiry set
    now,             \* time.time(), in seconds
    cstate,          \* worker: its state in the claim loop
    empties,         \* worker: consecutive claims that found the queue empty
    REDIS_HOST,      \* config.py REDIS_HOST of each node: TRUE when a host is set
    save_log,        \* flush harness: this process's save_buffer calls that found records
    faults,          \* failures of file and store operations so far
    node_rate,       \* the Redis hash REDIS_NODE_STATUS_KEY: node -> 'rate' of its entry
    display,         \* monitor: the table last printed, <<>> before the first
    pending,         \* fetch_batch: fetch_one coroutines gathered and not yet returned
    adjusted,        \* adjust_rate calls since the last round was issued
    recent_results   \* worker: self.recent_results, oldest first, 1 for a duplicate

storeVars == <<seen_ids, connected, hist>>

workerVars == <<wpc, use_redis, local_seen_ids, products_buffer, unique_products,
                last_save_count, target, task, output_file, seen_ids_file,
                rounds, life_start>>

queueVars == <<ID_RANGE_START, ID_RANGE_END, CHUNK_SIZE, queue, ipc, clear,
               current_len, chunks, push_index, solo, held, consumed, loaded, push_log,
               claim_log, releases>>

ctlVars == <<current_batch_size, response_times, success_count, error_count,
             streak, floored, last_pattern, switches>>

registryVars == <<node_status, expire_at, now>>

drainVars == <<cstate, empties>>

monitorVars == <<node_rate, display>>

roundVars == <<pending, adjusted>>

auxVars == <<registryVars, drainVars, REDIS_HOST, save_log, faults, monitorVars,
             roundVars, recent_results>>

vars == <<seen_ids, connected, hist, wpc, use_redis, local_seen_ids,
          products_buffer, unique_products, last_save_count, target, task,
          output_file, seen_ids_file, rounds, life_start,
          ID_RANGE_START, ID_RANGE_END, CHUNK_SIZE, queue, ipc, clear,
          current_len, chunks, push_index, solo, held, consumed, loaded, push_log,
          claim_log, releases, current_batch_size, response_times,
          success_count, error_count, streak, floored, last_pattern, switches,
          node_status, expire_at, now, cstate, empties, REDIS_HOST, save_log, faults,
          node_rate, display, pending, adjusted, recent_results>>

\* ------------------------------------------------------------------------
\* Helpers
\* ------------------------------------------------------------------------

Range(s) == {s[i] : i \in DOMAIN s}

\* How a shared-store command can end: "ok" (executed, reply received),
\* "raise_before" (exception before the command reached the store),
\* "raise_after" (command executed, reply lost: socket_timeout).
Outcomes == {"ok", "raise_before", "raise_after"}

\* ------------------------------------------------------------------------
\* Redis primitives (atomic per command)
\* ------------------------------------------------------------------------

\* mutant: the store knows no identifier
sismember_never(S, pid) == FALSE

\* SISMEMBER key member
sismember(S, pid) == pid \in S

\* SADD key member...: the set afterwards
sadd_set(S, pids) == S \cup pids

\* SADD key member...: the reply, the number of members newly added
sadd_reply(S, pids) == Cardinality(pids \ S)

\* SCARD key
scard(S) == Cardinality(S)

\* ------------------------------------------------------------------------
\* RedisDedup (main.py 42-110): return values and effect on the shared set
\* ------------------------------------------------------------------------

\* whether the command of handle c reaches the store and executes
Executes(c, f) == connected[c] /\ f # "raise_before"

\* mutant: a check that fails reports "seen"
is_seen_fail_seen(c, pid, f) ==
    IF ~connected[c] \/ f # "ok" THEN TRUE ELSE sismember(seen_ids, pid)

\* RedisDedup.is_seen
is_seen(c, pid, f) ==
    IF ~connected[c] THEN FALSE
    ELSE IF f # "ok" THEN FALSE
    ELSE sismember(seen_ids, pid)

\* mutant: reports "newly added" whenever the command succeeded
add_seen_any_reply(c, pid, f) == connected[c] /\ f = "ok"

\* RedisDedup.add_seen: the returned bool
add_seen(c, pid, f) ==
    IF ~connected[c] THEN FALSE
    ELSE IF f # "ok" THEN FALSE
    ELSE sadd_reply(seen_ids, {pid}) = 1

\* RedisDedup.add_seen: the shared set afterwards
add_seen_store(c, pid, f) ==
    IF Executes(c, f) THEN sadd_set(seen_ids, {pid}) ELSE seen_ids

\* mutant: returns the number of arguments sent, not the number newly added
add_seen_batch_len(c, pids, f) == IF connected[c] /\ f = "ok" THEN Len(pids) ELSE 0

\* RedisDedup.add_seen_batch: the returned count
add_seen_batch(c, pids, f) ==
    IF ~connected[c] \/ pids = <<>> THEN 0
    ELSE IF f # "ok" THEN 0
    ELSE sadd_reply(seen_ids, Range(pids))

\* RedisDedup.add_seen_batch: the shared set afterwards
add_seen_batch_store(c, pids, f) ==
    IF Executes(c, f) /\ pids # <<>> THEN sadd_set(seen_ids, Range(pids))
    ELSE seen_ids

\* RedisDedup.get_count
get_count(c, f) ==
    IF ~connected[c] THEN 0
    ELSE IF f # "ok" THEN 0
    ELSE scard(seen_ids)

\* ------------------------------------------------------------------------
\* Store harness: any handle calls any RedisDedup method with any argument
\* ------------------------------------------------------------------------

Call(op, c, pids, f, retb, retn) ==
    [op |-> op, pids |-> pids, ok |-> (connected[c] /\ f = "ok"),
     retb |-> retb, retn |-> retn]

\* RedisDedup.connect: ping succeeds or raises
connect(c, ping_ok) ==
    /\ connected' = [connected EXCEPT ![c] = ping_ok]
    /\ UNCHANGED <<seen_ids, hist>>
    /\ UNCHANGED workerVars
    /\ UNCHANGED <<queueVars, ctlVars, auxVars>>

CallIsSeen(c, pid, f) ==
    /\ Len(hist) < MaxCalls
    /\ hist' = Append(hist, Call("is_seen", c, <<pid>>, f, is_seen(c, pid, f), 0))
    /\ UNCHANGED <<seen_ids, connected>>
    /\ UNCHANGED workerVars
    /\ UNCHANGED <<queueVars, ctlVars, auxVars>>

CallAddSeen(c, pid, f) ==
    /\ Len(hist) < MaxCalls
    /\ seen_ids' = add_seen_store(c, pid, f)
    /\ hist' = Append(hist, Call("add_seen", c, <<pid>>, f, add_seen(c, pid, f), 0))
    /\ UNCHANGED connected
    /\ UNCHANGED workerVars
    /\ UNCHANGED <<queueVars, ctlVars, auxVars>>

CallAddSeenBatch(c, pids, f) ==
    /\ Len(hist) < MaxCalls
    /\ seen_ids' = add_seen_batch_store(c, pids, f)
    /\ hist' = Append(hist, Call("add_seen_batch", c, pids, f, FALSE,
                                  add_seen_batch(c, pids, f)))
    /\ UNCHANGED connected
    /\ UNCHANGED workerVars
    /\ UNCHANGED <<queueVars, ctlVars, auxVars>>

CallGetCount(c, f) ==
    /\ Len(hist) < MaxCalls
    /\ hist' = Append(hist, Call("get_count", c, <<>>, f, FALSE, get_count(c, f)))
    /\ UNCHANGED <<seen_ids, connected>>
    /\ UNCHANGED workerVars
    /\ UNCHANGED <<queueVars, ctlVars, auxVars>>

\* DistributedScraper.__init__ (main.py 114-144), before run()
InitWorkers ==
    /\ wpc = [w \in Workers |-> "start"]
    /\ use_redis = [w \in Workers |-> FALSE]
    /\ local_seen_ids = [w \in Workers |-> {}]
    /\ products_buffer = [w \in Workers |-> <<>>]
    /\ unique_products = [w \in Workers |-> 0]
    /\ last_save_count = [w \in Workers |-> 0]
    /\ task = [w \in Workers |-> [t \in Tasks |-> [pc |-> "none", products |-> <<>>]]]
    /\ output_file = [w \in Workers |-> <<>>]
    /\ seen_ids_file = [w \in Workers |-> <<>>]
    /\ rounds = [w \in Workers |-> 0]
    /\ life_start = [w \in Workers |-> 0]

\* the queue side at rest: nothing configured to run, the queue empty
\* no node has reported, no worker is in the claim loop, every node is
\* configured with a Redis host (config.py 65, the default)
InitAux ==
    /\ node_status = <<>>
    /\ expire_at = 0 - 1
    /\ now = 0
    /\ cstate = [w \in Workers |-> "idle"]
    /\ empties = [w \in Workers |-> 0]
    /\ REDIS_HOST = [w \in Workers |-> TRUE]
    /\ save_log = [w \in Workers |-> <<>>]
    /\ faults = 0
    /\ node_rate = [w \in Workers |-> 0]
    /\ display = <<>>
    /\ pending = 0
    /\ adjusted = 0
    /\ recent_results = [w \in Workers |-> <<>>]

\* main.py 134-139: the controller of a scraper just constructed
InitController ==
    /\ current_batch_size = BATCH_SIZE
    /\ response_times = <<>>
    /\ success_count = 0
    /\ error_count = 0
    /\ streak = 0
    /\ floored = FALSE
    /\ last_pattern = <<>>
    /\ switches = 0

InitQueueIdle ==
    /\ ID_RANGE_START = 0
    /\ ID_RANGE_END = 1
    /\ CHUNK_SIZE = 1
    /\ queue = <<>>
    /\ ipc = [i \in Inits |-> "idle"]
    /\ clear = [i \in Inits |-> FALSE]
    /\ current_len = [i \in Inits |-> 0]
    /\ chunks = [i \in Inits |-> <<>>]
    /\ push_index = [i \in Inits |-> 0]
    /\ solo = [i \in Inits |-> TRUE]
    /\ held = [w \in Workers |-> <<>>]
    /\ consumed = EmptyBag
    /\ loaded = EmptyBag
    /\ push_log = <<>>
    /\ claim_log = <<>>
    /\ releases = 0

InitStore ==
    /\ InitQueueIdle
    /\ seen_ids = {}
    /\ connected = [c \in Workers |-> FALSE]
    /\ hist = <<>>
    /\ InitWorkers
    /\ InitController
    /\ InitAux
    /\ target = [w \in Workers |-> 1]

NextStore ==
    \/ \E c \in Workers, b \in BOOLEAN : connect(c, b)
    \/ \E c \in Workers, pid \in PRODUCT_IDS, f \in Outcomes : CallIsSeen(c, pid, f)
    \/ \E c \in Workers, pid \in PRODUCT_IDS, f \in Outcomes : CallAddSeen(c, pid, f)
    \/ \E c \in Workers, pids \in BatchArgs,
          f \in Outcomes : CallAddSeenBatch(c, pids, f)
    \/ \E c \in Workers, f \in Outcomes : CallGetCount(c, f)

SpecStore == InitStore /\ [][NextStore]_vars

\* ------------------------------------------------------------------------
\* Dedup Store contract (C5, C6), checked under SpecStore
\* ------------------------------------------------------------------------

IsMark(k) == hist[k].op \in {"add_seen", "add_seen_batch"}

\* identifiers named by the mark and mark_batch calls 1..n of the history
MarkedIds(n) == UNION {Range(hist[k].pids) : k \in {j \in 1..n : IsMark(j)}}

\* calls 1..n all ran on a connected handle and none raised
AllOk(n) == \A k \in 1..n : hist[k].ok

\* i < j are two successive add_seen calls for the same identifier
SuccessiveMarks(i, j) ==
    /\ i < j
    /\ hist[i].op = "add_seen" /\ hist[j].op = "add_seen"
    /\ hist[i].pids = hist[j].pids
    /\ \A k \in (i+1)..(j-1) : ~(IsMark(k) /\ hist[i].pids[1] \in Range(hist[k].pids))

\* C5 as stated: of two successive mark(id) calls (the first two for that
\* identifier) exactly the first returns true, and seen(id) is true after
\* any mark(id) that returned true.
C5_AsStated ==
    /\ \A i, j \in 1..Len(hist) :
          (SuccessiveMarks(i, j) /\ hist[i].pids[1] \notin MarkedIds(i-1))
             => (hist[i].retb /\ ~hist[j].retb)
    /\ \A i, j \in 1..Len(hist) :
          (/\ i < j
           /\ hist[i].op = "add_seen" /\ hist[i].retb
           /\ hist[j].op = "is_seen" /\ hist[j].pids = hist[i].pids)
             => hist[j].retb

\* C5 amended: the same, for calls made on a connected handle that do not
\* raise: of two successive mark(id) calls that completed, the second never
\* returns true and the first returns true when no call marked id before;
\* a seen(id) that completes returns true after a mark(id) that returned
\* true.
C5_MarkIdempotent ==
    /\ \A i, j \in 1..Len(hist) :
          (SuccessiveMarks(i, j) /\ hist[i].ok /\ hist[j].ok)
             => /\ ~hist[j].retb
                /\ hist[i].pids[1] \notin MarkedIds(i-1) => hist[i].retb
    /\ \A i, j \in 1..Len(hist) :
          (/\ i < j
           /\ hist[i].op = "add_seen" /\ hist[i].retb
           /\ hist[j].op = "is_seen" /\ hist[j].pids = hist[i].pids
           /\ hist[j].ok)
             => hist[j].retb

\* mark("7") twice then seen("7"), all completed: true, false, true
C5_Witness ==
    /\ Len(hist) = 3
    /\ AllOk(3)
    /\ hist[1].op = "add_seen" /\ hist[1].pids = <<"7">> /\ hist[1].retb
    /\ hist[2].op = "add_seen" /\ hist[2].pids = <<"7">> /\ ~hist[2].retb
    /\ hist[3].op = "is_seen" /\ hist[3].pids = <<"7">> /\ hist[3].retb

\* C6 as stated: count() equals the number of distinct identifiers marked
\* and mark_batch returns the number of identifiers of its batch that were
\* not present before the call.
C6_AsStated ==
    /\ \A i \in 1..Len(hist) :
          hist[i].op = "get_count" => hist[i].retn = Cardinality(MarkedIds(i-1))
    /\ \A i \in 1..Len(hist) :
          hist[i].op = "add_seen_batch"
             => hist[i].retn = Cardinality(Range(hist[i].pids) \ MarkedIds(i-1))

\* C6 amended: the same while every call so far ran on a connected handle
\* and none raised; count() is then also what any connected handle reads.
C6_CountDistinct ==
    /\ \A i \in 1..Len(hist) :
          (hist[i].op = "get_count" /\ AllOk(i))
             => hist[i].retn = Cardinality(MarkedIds(i-1))
    /\ \A i \in 1..Len(hist) :
          (hist[i].op = "add_seen_batch" /\ AllOk(i))
             => hist[i].retn = Cardinality(Range(hist[i].pids) \ MarkedIds(i-1))
    /\ AllOk(Len(hist))
          => \A c \in Workers :
                connected[c] => get_count(c, "ok") = Cardinality(MarkedIds(Len(hist)))

\* marking "7", "7", "9" into the empty store: count() = 2
C6_Witness ==
    /\ Len(hist) = 3
    /\ AllOk(3)
    /\ \A k \in 1..3 : hist[k].op = "add_seen"
    /\ hist[1].pids = <<"7">> /\ hist[2].pids = <<"7">> /\ hist[3].pids = <<"9">>
    /\ ~hist[2].retb
    /\ \E c \in Workers : connected[c] /\ get_count(c, "ok") = 2

\* ------------------------------------------------------------------------
\* DistributedScraper (main.py 113-426): one process per worker
\* ------------------------------------------------------------------------

HEADER == "header"

\* number of rows of sequence rows that carry identifier pid
Count(rows, pid) == Cardinality({i \in DOMAIN rows : rows[i] = pid})

NoTask == [pc |-> "none", products |-> <<>>]

DoneTask == [pc |-> "done", products |-> <<>>]

\* the in-memory dedup and buffer state of worker w the product loop works on
Mem(w) == [local |-> local_seen_ids[w], buffer |-> products_buffer[w],
           unique |-> unique_products[w]]

\* mutant: in fleet mode the shared store is asked also about an identifier
\* of the local set
RECURSIVE ProductLoop_store_first(_, _, _)
ProductLoop_store_first(fleet, m, prods) ==
    IF prods = <<>> THEN [mem |-> m, rest |-> <<>>]
    ELSE LET pid == Head(prods) IN
         IF fleet THEN [mem |-> m, rest |-> prods]
         ELSE IF pid \in m.local THEN ProductLoop_store_first(fleet, m, Tail(prods))
         ELSE ProductLoop_store_first(fleet,
                          [local |-> m.local \cup {pid},
                           buffer |-> Append(m.buffer, pid),
                           unique |-> m.unique + 1],
                          Tail(prods))

\* fetch_one, the loop over products (main.py 300-311), run from the current
\* position until the coroutine suspends at a shared-store await or the loop
\* ends.  Standalone: is_product_seen and mark_product_seen never suspend, the
\* whole loop is one step.  With use_redis: a local hit is a duplicate, a
\* local miss suspends at redis.is_seen.  Returns the memory and the products
\* left, the head being the one whose check is awaited.
RECURSIVE ProductLoop(_, _, _)
ProductLoop(fleet, m, prods) ==
    IF prods = <<>> THEN [mem |-> m, rest |-> <<>>]
    ELSE LET pid == Head(prods) IN
         IF pid \in m.local THEN ProductLoop(fleet, m, Tail(prods))
         ELSE IF fleet THEN [mem |-> m, rest |-> prods]
         ELSE ProductLoop(fleet,
                          [local |-> m.local \cup {pid},
                           buffer |-> Append(m.buffer, pid),
                           unique |-> m.unique + 1],
                          Tail(prods))

\* store the loop's outcome: worker memory and the coroutine's position
Resume(w, t, r) ==
    /\ local_seen_ids' = [local_seen_ids EXCEPT ![w] = r.mem.local]
    /\ products_buffer' = [products_buffer EXCEPT ![w] = r.mem.buffer]
    /\ unique_products' = [unique_products EXCEPT ![w] = r.mem.unique]
    /\ task' = [task EXCEPT ![w][t] =
                  IF r.rest = <<>> THEN DoneTask
                  ELSE [pc |-> "is_seen", products |-> r.rest]]

\* save_buffer (main.py 201-225): the output file afterwards
save_buffer_output(file, buffer) ==
    IF buffer = <<>> THEN file
    ELSE file \o (IF file = <<>> THEN <<HEADER>> ELSE <<>>) \o buffer

\* save_buffer: the seen-identifiers file afterwards
save_buffer_seen(file, buffer) == file \o buffer

\* save_buffer of worker w, all writes succeeding
SaveBuffer(w) ==
    /\ output_file' = [output_file EXCEPT ![w] = save_buffer_output(@, products_buffer[w])]
    /\ seen_ids_file' = [seen_ids_file EXCEPT ![w] = save_buffer_seen(@, products_buffer[w])]
    /\ products_buffer' = [products_buffer EXCEPT ![w] = <<>>]

\* load_seen_ids (main.py 146-165): read the local file, connect to Redis.
\* host_ok: REDIS_HOST set, the redis package present and the ping answered.
LoadSeenIds(w, host_ok) ==
    /\ wpc[w] = "start"
    /\ local_seen_ids' = [local_seen_ids EXCEPT ![w] = Range(seen_ids_file[w])]
    /\ unique_products' = [unique_products EXCEPT ![w] = Cardinality(Range(seen_ids_file[w]))]
    /\ last_save_count' = [last_save_count EXCEPT ![w] = Cardinality(Range(seen_ids_file[w]))]
    /\ connected' = [connected EXCEPT ![w] = host_ok]
    /\ use_redis' = [use_redis EXCEPT ![w] = host_ok]
    /\ wpc' = [wpc EXCEPT ![w] =
                  IF host_ok /\ seen_ids_file[w] # <<>> THEN "sync"
                  ELSE IF Cardinality(Range(seen_ids_file[w])) >= target[w] THEN "exit"
                  ELSE "run"]
    /\ UNCHANGED <<seen_ids, hist, products_buffer, target, task, output_file,
                   seen_ids_file, rounds, life_start>>
    /\ UNCHANGED <<queueVars, ctlVars, auxVars>>

\* sync_local_to_redis (main.py 167-185): one SADD of the local identifiers
\* (they fit one batch of 1000)
SyncLocalToRedis(w) ==
    /\ wpc[w] = "sync"
    /\ \E pids \in [1..Cardinality(local_seen_ids[w]) -> local_seen_ids[w]] :
          /\ Range(pids) = local_seen_ids[w]
          /\ seen_ids' = add_seen_batch_store(w, pids, "ok")
    /\ wpc' = [wpc EXCEPT ![w] = IF unique_products[w] >= target[w] THEN "exit" ELSE "run"]
    /\ UNCHANGED <<connected, hist, use_redis, local_seen_ids, products_buffer,
                   unique_products, last_save_count, target, task, output_file,
                   seen_ids_file, rounds, life_start>>
    /\ UNCHANGED <<queueVars, ctlVars, auxVars>>

\* fetch_batch (main.py 262-267): issue the round's fetches
FetchBatch(w) ==
    /\ wpc[w] = "run"
    /\ unique_products[w] < target[w]
    /\ rounds[w] < MaxRounds
    /\ rounds' = [rounds EXCEPT ![w] = @ + 1]
    /\ task' = [task EXCEPT ![w] = [t \in Tasks |-> [pc |-> "post", products |-> <<>>]]]
    /\ wpc' = [wpc EXCEPT ![w] = "round"]
    /\ UNCHANGED <<storeVars, use_redis, local_seen_ids, products_buffer,
                   unique_products, last_save_count, target, output_file,
                   seen_ids_file, life_start>>
    /\ UNCHANGED <<queueVars, ctlVars, auxVars>>

\* fetch_one (main.py 287-313): the response is 200 and carries prods
FetchOneOk(w, t, prods) ==
    /\ wpc[w] = "round"
    /\ task[w][t].pc = "post"
    /\ Resume(w, t, ProductLoop(use_redis[w], Mem(w), prods))
    /\ UNCHANGED <<storeVars, wpc, use_redis, last_save_count, target,
                   output_file, seen_ids_file, rounds, life_start>>
    /\ UNCHANGED <<queueVars, ctlVars, auxVars>>

\* fetch_one (main.py 314-320): non-200 status, timeout or connection error
FetchOneFail(w, t) ==
    /\ wpc[w] = "round"
    /\ task[w][t].pc = "post"
    /\ task' = [task EXCEPT ![w][t] = DoneTask]
    /\ UNCHANGED <<storeVars, wpc, use_redis, local_seen_ids, products_buffer,
                   unique_products, last_save_count, target, output_file,
                   seen_ids_file, rounds, life_start>>
    /\ UNCHANGED <<queueVars, ctlVars, auxVars>>

\* fetch_one resumes from `await self.is_product_seen(pid)` (main.py 302-304):
\* seen: a duplicate, the loop goes on; not seen: mark_product_seen adds pid
\* to the local set (main.py 197) and suspends at redis.add_seen
IsProductSeenReply(w, t) ==
    /\ wpc[w] = "round"
    /\ task[w][t].pc = "is_seen"
    /\ LET pid == Head(task[w][t].products) IN
          IF is_seen(w, pid, "ok")
          THEN Resume(w, t, ProductLoop(TRUE, Mem(w), Tail(task[w][t].products)))
          ELSE /\ local_seen_ids' = [local_seen_ids EXCEPT ![w] = @ \cup {pid}]
               /\ task' = [task EXCEPT ![w][t].pc = "add_seen"]
               /\ UNCHANGED <<products_buffer, unique_products>>
    /\ UNCHANGED <<storeVars, wpc, use_redis, last_save_count, target,
                   output_file, seen_ids_file, rounds, life_start>>
    /\ UNCHANGED <<queueVars, ctlVars, auxVars>>

\* what fetch_one does with the record once mark_product_seen has returned
\* (main.py 304-308); newly_added is the reply of redis.add_seen, which
\* mark_product_seen drops (main.py 199)
AfterMark(m, pid, newly_added) ==
    [local |-> m.local, buffer |-> Append(m.buffer, pid), unique |-> m.unique + 1]

\* fetch_one resumes from `await self.mark_product_seen(pid)` (main.py 304-309)
MarkProductSeenReply(w, t) ==
    /\ wpc[w] = "round"
    /\ task[w][t].pc = "add_seen"
    /\ LET pid == Head(task[w][t].products) IN
          /\ seen_ids' = add_seen_store(w, pid, "ok")
          /\ Resume(w, t, ProductLoop(TRUE,
                                      AfterMark(Mem(w), pid, add_seen(w, pid, "ok")),
                                      Tail(task[w][t].products)))
    /\ UNCHANGED <<connected, hist, wpc, use_redis, last_save_count, target,
                   output_file, seen_ids_file, rounds, life_start>>
    /\ UNCHANGED <<queueVars, ctlVars, auxVars>>

\* run(), after fetch_batch has gathered the round (main.py 376-408):
\* the periodic save. The round here is always the coroutines Tasks; the
\* sizing of the round by adjust_rate is FetchBatchAdjust, further down.
EndRound(w) ==
    /\ wpc[w] = "round"
    /\ \A t \in Tasks : task[w][t].pc = "done"
    /\ task' = [task EXCEPT ![w] = [t \in Tasks |-> NoTask]]
    /\ wpc' = [wpc EXCEPT ![w] = "run"]
    /\ IF unique_products[w] - last_save_count[w] >= SAVE_INTERVAL
       THEN /\ SaveBuffer(w)
            /\ last_save_count' = [last_save_count EXCEPT ![w] = unique_products[w]]
       ELSE UNCHANGED <<output_file, seen_ids_file, products_buffer, last_save_count>>
    /\ UNCHANGED <<storeVars, use_redis, local_seen_ids, unique_products, target,
                   rounds, life_start>>
    /\ UNCHANGED <<queueVars, ctlVars, auxVars>>

\* run(), the loop ends with the target reached: final save (main.py 410-412)
FinalSave(w) ==
    /\ wpc[w] = "run"
    /\ unique_products[w] >= target[w]
    /\ SaveBuffer(w)
    /\ wpc' = [wpc EXCEPT ![w] = "exit"]
    /\ UNCHANGED <<storeVars, use_redis, local_seen_ids, unique_products,
                   last_save_count, target, task, rounds, life_start>>
    /\ UNCHANGED <<queueVars, ctlVars, auxVars>>

\* main(), KeyboardInterrupt (main.py 448-454): the coroutines are cancelled,
\* the buffer is saved
Interrupt(w) ==
    /\ wpc[w] \in {"sync", "run", "round"}
    /\ SaveBuffer(w)
    /\ task' = [task EXCEPT ![w] = [t \in Tasks |-> NoTask]]
    /\ wpc' = [wpc EXCEPT ![w] = "exit"]
    /\ UNCHANGED <<storeVars, use_redis, local_seen_ids, unique_products,
                   last_save_count, target, rounds, life_start>>
    /\ UNCHANGED <<queueVars, ctlVars, auxVars>>

\* the operator starts the program again: a new process, the files are kept
Restart(w) ==
    /\ wpc[w] = "exit"
    /\ rounds[w] < MaxRounds
    /\ wpc' = [wpc EXCEPT ![w] = "start"]
    /\ use_redis' = [use_redis EXCEPT ![w] = FALSE]
    /\ connected' = [connected EXCEPT ![w] = FALSE]
    /\ local_seen_ids' = [local_seen_ids EXCEPT ![w] = {}]
    /\ products_buffer' = [products_buffer EXCEPT ![w] = <<>>]
    /\ unique_products' = [unique_products EXCEPT ![w] = 0]
    /\ last_save_count' = [last_save_count EXCEPT ![w] = 0]
    /\ life_start' = [life_start EXCEPT ![w] = Len(output_file[w])]
    /\ UNCHANGED <<seen_ids, hist, target, task, output_file, seen_ids_file, rounds>>
    /\ UNCHANGED <<queueVars, ctlVars, auxVars>>

\* API responses: product lists of up to MaxProducts records
Responses == UNION {[1..k -> PRODUCT_IDS] : k \in 0..MaxProducts}

InitFleet ==
    /\ InitQueueIdle
    /\ seen_ids = {}
    /\ connected = [c \in Workers |-> FALSE]
    /\ hist = <<>>
    /\ InitWorkers
    /\ InitController
    /\ InitAux
    /\ target \in [Workers -> 1..MaxTarget]

NextFleet ==
    \/ \E w \in Workers, b \in BOOLEAN : LoadSeenIds(w, b)
    \/ \E w \in Workers : SyncLocalToRedis(w)
    \/ \E w \in Workers : FetchBatch(w)
    \/ \E w \in Workers, t \in Tasks, prods \in Responses : FetchOneOk(w, t, prods)
    \/ \E w \in Workers, t \in Tasks : FetchOneFail(w, t)
    \/ \E w \in Workers, t \in Tasks : IsProductSeenReply(w, t)
    \/ \E w \in Workers, t \in Tasks : MarkProductSeenReply(w, t)
    \/ \E w \in Workers : EndRound(w)
    \/ \E w \in Workers : FinalSave(w)
    \/ \E w \in Workers : Interrupt(w)
    \/ \E w \in Workers : Restart(w)

SpecFleet == InitFleet /\ [][NextFleet]_vars

\* fleet mode throughout: every worker starts with the shared store reachable
NextFleetConnected ==
    \/ \E w \in Workers : LoadSeenIds(w, TRUE)
    \/ \E w \in Workers : SyncLocalToRedis(w)
    \/ \E w \in Workers : FetchBatch(w)
    \/ \E w \in Workers, t \in Tasks, prods \in Responses : FetchOneOk(w, t, prods)
    \/ \E w \in Workers, t \in Tasks : FetchOneFail(w, t)
    \/ \E w \in Workers, t \in Tasks : IsProductSeenReply(w, t)
    \/ \E w \in Workers, t \in Tasks : MarkProductSeenReply(w, t)
    \/ \E w \in Workers : EndRound(w)
    \/ \E w \in Workers : FinalSave(w)
    \/ \E w \in Workers : Interrupt(w)
    \/ \E w \in Workers : Restart(w)

SpecFleetConnected == InitFleet /\ [][NextFleetConnected]_vars

\* ------------------------------------------------------------------------
\* At most one persisted record per identifier (C1, C2, C3)
\* ------------------------------------------------------------------------

RECURSIVE SumOver(_, _)
SumOver(S, f) ==
    IF S = {} THEN 0
    ELSE LET x == CHOOSE y \in S : TRUE IN f[x] + SumOver(S \ {x}, f)

\* rows of identifier pid in the output files of all workers
Persisted(pid) == SumOver(Workers, [w \in Workers |-> Count(output_file[w], pid)])

\* C1: workers sharing one connected Dedup Store, each running check -> mark
\* -> buffer -> flush: no identifier is written to output more than once,
\* summed over all workers.
C1_AtMostOnePersisted == \A pid \in PRODUCT_IDS : Persisted(pid) <= 1

\* what worker w appended to its buffer during the current process lifetime:
\* the rows it has flushed since it started and the rows still buffered
AppendedThisLife(w) ==
    SubSeq(output_file[w], life_start[w] + 1, Len(output_file[w])) \o products_buffer[w]

\* C2: within one worker process no identifier is appended to the write
\* buffer (and so written to the output file) more than once during the
\* process lifetime, in standalone mode and in fleet mode alike.
C2_AppendedOncePerLife ==
    \A w \in Workers, pid \in PRODUCT_IDS : Count(AppendedThisLife(w), pid) <= 1

\* C3: when two workers race on the same identifier, a worker whose
\* add-to-set reports "already present" (the identifier was added by another
\* worker: this one has neither buffered nor written it) does not buffer the
\* record; only the worker whose add reports "newly added" appends it.
C3_LoserDoesNotBuffer ==
    [][\A w \in Workers, t \in Tasks :
          (/\ task[w][t].pc = "add_seen"
           /\ Count(output_file[w] \o products_buffer[w], Head(task[w][t].products)) = 0
           /\ ~add_seen(w, Head(task[w][t].products), "ok")
           /\ MarkProductSeenReply(w, t))
             => products_buffer'[w] = products_buffer[w]]_vars

\* ------------------------------------------------------------------------
\* Work-unit queue: init_queue.py, and the workers' claim / release
\* ------------------------------------------------------------------------

Min(a, b) == IF a <= b THEN a ELSE b

\* a work unit, f"{start}:{end}" (init_queue.py 44), as the pair it names
Unit(start, end) == <<start, end>>

\* mutant: the last chunk is not clipped to the end of the range
RECURSIVE GenChunksUnclipped(_, _, _)
GenChunksUnclipped(start, range_end, size) ==
    IF start >= range_end THEN <<>>
    ELSE <<Unit(start, start + size)>> \o GenChunksUnclipped(start + size, range_end, size)

\* init_queue.py 41-44: for start in range(ID_RANGE_START, ID_RANGE_END,
\* CHUNK_SIZE): end = min(start + CHUNK_SIZE, ID_RANGE_END)
RECURSIVE GenChunks(_, _, _)
GenChunks(start, range_end, size) ==
    IF start >= range_end THEN <<>>
    ELSE <<Unit(start, Min(start + size, range_end))>>
            \o GenChunks(start + size, range_end, size)

Reverse(s) == [k \in 1..Len(s) |-> s[Len(s) + 1 - k]]

\* mutant: LPUSH, the batch lands before the head in reverse order
lpush(list, batch) == Reverse(batch) \o list

\* mutant: the pushed batch is lost
rpush_lost(list, batch) == list

\* RPUSH key value...: the list afterwards
rpush(list, batch) == list \o batch

\* the bag of the elements of sequence s
SeqToBag(s) == [u \in Range(s) |-> Count(s, u)]

\* chunks[i:i+batch_size]
Slice(s, from, size) == SubSeq(s, from + 1, Min(from + size, Len(s)))

\* a step of run i that changes the queue disturbs every other run in progress
Disturb(i) == [j \in Inits |-> IF j = i THEN solo[j] ELSE FALSE]

DisturbAll == [j \in Inits |-> FALSE]

\* the operator runs init_queue.py, with or without --clear
InitQueueStart(i, c) ==
    /\ ipc[i] = "idle"
    /\ ipc' = [ipc EXCEPT ![i] = "ping"]
    /\ clear' = [clear EXCEPT ![i] = c]
    /\ solo' = [solo EXCEPT ![i] = TRUE]
    /\ UNCHANGED <<ID_RANGE_START, ID_RANGE_END, CHUNK_SIZE, queue, current_len,
                   chunks, push_index, held, consumed, loaded, push_log,
                   claim_log, releases>>
    /\ UNCHANGED <<storeVars, workerVars, ctlVars, auxVars>>

\* init_queue.py 20-25: r.ping(); a failed ping returns
InitQueuePing(i, ping_ok) ==
    /\ ipc[i] = "ping"
    /\ ipc' = [ipc EXCEPT ![i] = IF ping_ok THEN "llen" ELSE "failed"]
    /\ UNCHANGED <<ID_RANGE_START, ID_RANGE_END, CHUNK_SIZE, queue, clear,
                   current_len, chunks, push_index, solo, held, consumed, loaded, push_log,
                   claim_log, releases>>
    /\ UNCHANGED <<storeVars, workerVars, ctlVars, auxVars>>

\* mutant: the emptiness check is gone
RefusesNever(len) == FALSE

\* init_queue.py 35: if current_len > 0, the run refuses and returns
Refuses(len) == len > 0

\* init_queue.py 27-46: current_len = r.llen(); without clear the run goes on
\* to refuse a non-empty queue or to generate the chunks; with clear it goes
\* on to delete the queue
InitQueueLlen(i) ==
    /\ ipc[i] = "llen"
    /\ current_len' = [current_len EXCEPT ![i] = Len(queue)]
    /\ IF clear[i]
       THEN /\ ipc' = [ipc EXCEPT ![i] = "delete"]
            /\ UNCHANGED chunks
       ELSE IF Refuses(Len(queue))
       THEN /\ ipc' = [ipc EXCEPT ![i] = "refused"]
            /\ UNCHANGED chunks
       ELSE /\ chunks' = [chunks EXCEPT ![i] =
                             GenChunks(ID_RANGE_START, ID_RANGE_END, CHUNK_SIZE)]
            /\ ipc' = [ipc EXCEPT ![i] =
                          IF ID_RANGE_START < ID_RANGE_END THEN "push" ELSE "done"]
    /\ UNCHANGED <<ID_RANGE_START, ID_RANGE_END, CHUNK_SIZE, queue, clear,
                   push_index, solo, held, consumed, loaded, push_log, claim_log,
                   releases>>
    /\ UNCHANGED <<storeVars, workerVars, ctlVars, auxVars>>

\* init_queue.py 30-46: r.delete(REDIS_QUEUE_KEY); current_len = 0; the
\* chunks are generated
InitQueueDelete(i) ==
    /\ ipc[i] = "delete"
    /\ queue' = <<>>
    /\ current_len' = [current_len EXCEPT ![i] = 0]
    /\ chunks' = [chunks EXCEPT ![i] =
                     GenChunks(ID_RANGE_START, ID_RANGE_END, CHUNK_SIZE)]
    /\ ipc' = [ipc EXCEPT ![i] =
                  IF ID_RANGE_START < ID_RANGE_END THEN "push" ELSE "done"]
    /\ solo' = [Disturb(i) EXCEPT ![i] = TRUE]
    /\ loaded' = [u \in {v \in DOMAIN loaded : loaded[v] > Count(queue, v)} |->
                     loaded[u] - Count(queue, u)]
    /\ push_log' = claim_log
    /\ UNCHANGED <<ID_RANGE_START, ID_RANGE_END, CHUNK_SIZE, clear, push_index,
                   held, consumed, claim_log, releases>>
    /\ UNCHANGED <<storeVars, workerVars, ctlVars, auxVars>>

\* init_queue.py 50-53: one r.rpush of the next batch
InitQueuePush(i) ==
    /\ ipc[i] = "push"
    /\ LET batch == Slice(chunks[i], push_index[i], PUSH_BATCH_SIZE) IN
          /\ queue' = rpush(queue, batch)
          /\ push_log' = push_log \o batch
          /\ loaded' = loaded (+) SeqToBag(batch)
          /\ push_index' = [push_index EXCEPT ![i] = @ + PUSH_BATCH_SIZE]
          /\ ipc' = [ipc EXCEPT ![i] =
                        IF push_index[i] + PUSH_BATCH_SIZE >= Len(chunks[i])
                        THEN "done" ELSE "push"]
    /\ solo' = Disturb(i)
    /\ UNCHANGED <<ID_RANGE_START, ID_RANGE_END, CHUNK_SIZE, clear, current_len,
                   chunks, held, consumed, claim_log, releases>>
    /\ UNCHANGED <<storeVars, workerVars, ctlVars, auxVars>>

\* init_queue.py 27-53: a Redis command raises (connection lost); nothing
\* catches it and the run dies where it stands
InitQueueCrash(i) ==
    /\ ipc[i] \in {"llen", "delete", "push"}
    /\ ipc' = [ipc EXCEPT ![i] = "crashed"]
    /\ UNCHANGED <<ID_RANGE_START, ID_RANGE_END, CHUNK_SIZE, queue, clear,
                   current_len, chunks, push_index, solo, held, consumed, loaded, push_log,
                   claim_log, releases>>
    /\ UNCHANGED <<storeVars, workerVars, ctlVars, auxVars>>

\* LPOP key: the list afterwards
lpop(list) == Tail(list)

\* claim(): pop the head of the queue (spec 4.1); on an empty queue or an
\* unreachable backend the call returns empty and changes nothing
Claim(w) ==
    /\ held[w] = <<>>
    /\ queue # <<>>
    /\ Len(claim_log) < MaxClaims
    /\ held' = [held EXCEPT ![w] = Head(queue)]
    /\ queue' = lpop(queue)
    /\ claim_log' = Append(claim_log, Head(queue))
    /\ solo' = DisturbAll
    /\ UNCHANGED <<ID_RANGE_START, ID_RANGE_END, CHUNK_SIZE, ipc, clear,
                   current_len, chunks, push_index, consumed, loaded, push_log, releases>>
    /\ UNCHANGED <<storeVars, workerVars, ctlVars, auxVars>>

\* release(unit): push the held unit to the tail of the queue (spec 4.1)
Release(w) ==
    /\ held[w] # <<>>
    /\ releases < MaxReleases
    /\ releases' = releases + 1
    /\ queue' = rpush(queue, <<held[w]>>)
    /\ push_log' = Append(push_log, held[w])
    /\ held' = [held EXCEPT ![w] = <<>>]
    /\ solo' = DisturbAll
    /\ UNCHANGED <<ID_RANGE_START, ID_RANGE_END, CHUNK_SIZE, ipc, clear,
                   current_len, chunks, push_index, consumed, loaded, claim_log>>
    /\ UNCHANGED <<storeVars, workerVars, ctlVars, auxVars>>

\* the worker has processed every identifier of its unit: the unit is
\* discarded (spec 3, WorkUnit lifecycle)
Consume(w) ==
    /\ held[w] # <<>>
    /\ consumed' = consumed (+) SetToBag({held[w]})
    /\ held' = [held EXCEPT ![w] = <<>>]
    /\ UNCHANGED <<ID_RANGE_START, ID_RANGE_END, CHUNK_SIZE, queue, ipc, clear,
                   current_len, chunks, push_index, solo, loaded, push_log, claim_log,
                   releases>>
    /\ UNCHANGED <<storeVars, workerVars, ctlVars, auxVars>>

\* the initialisers and workers at rest; the queue is empty or still holds
\* the units an earlier initialisation loaded
InitQueueRest ==
    /\ queue \in {<<>>, GenChunks(ID_RANGE_START, ID_RANGE_END, CHUNK_SIZE)}
    /\ push_log = queue
    /\ loaded = SeqToBag(queue)
    /\ ipc = [i \in Inits |-> "idle"]
    /\ clear = [i \in Inits |-> FALSE]
    /\ current_len = [i \in Inits |-> 0]
    /\ chunks = [i \in Inits |-> <<>>]
    /\ push_index = [i \in Inits |-> 0]
    /\ solo = [i \in Inits |-> TRUE]
    /\ held = [w \in Workers |-> <<>>]
    /\ consumed = EmptyBag
    /\ claim_log = <<>>
    /\ releases = 0
    /\ seen_ids = {}
    /\ connected = [c \in Workers |-> FALSE]
    /\ hist = <<>>
    /\ InitWorkers
    /\ InitController
    /\ InitAux
    /\ target = [w \in Workers |-> 1]

\* concurrent initialisers and workers, on the configurations QueueConfigs
InitQueueSpec ==
    /\ \E cfg \in QueueConfigs :
          /\ ID_RANGE_START = cfg[1]
          /\ ID_RANGE_END = cfg[2]
          /\ CHUNK_SIZE = cfg[3]
    /\ InitQueueRest

NextQueue ==
    \/ \E i \in Inits, c \in BOOLEAN : InitQueueStart(i, c)
    \/ \E i \in Inits, b \in BOOLEAN : InitQueuePing(i, b)
    \/ \E i \in Inits : InitQueueLlen(i)
    \/ \E i \in Inits : InitQueueDelete(i)
    \/ \E i \in Inits : InitQueuePush(i)
    \/ \E i \in Inits : InitQueueCrash(i)
    \/ \E w \in Workers : Claim(w)
    \/ \E w \in Workers : Release(w)
    \/ \E w \in Workers : Consume(w)

SpecQueue == InitQueueSpec /\ [][NextQueue]_vars

\* one initialiser running alone, on every range_start < range_end within
\* the bound and every chunk size within the bound
InitQueueAlone ==
    /\ ID_RANGE_START \in 0..(MaxRangeEnd - 1)
    /\ ID_RANGE_END \in (ID_RANGE_START + 1)..MaxRangeEnd
    /\ CHUNK_SIZE \in 1..MaxChunkSize
    /\ InitQueueRest

NextQueueAlone ==
    \E i \in {"i1"} :
       \/ \E c \in BOOLEAN : InitQueueStart(i, c)
       \/ \E b \in BOOLEAN : InitQueuePing(i, b)
       \/ InitQueueLlen(i)
       \/ InitQueueDelete(i)
       \/ InitQueuePush(i)
       \/ InitQueueCrash(i)

SpecQueueAlone == InitQueueAlone /\ [][NextQueueAlone]_vars

\* ------------------------------------------------------------------------
\* Work-unit queue contract (C4, C7, C8, C9), checked under SpecQueue
\* ------------------------------------------------------------------------

\* run i has generated its chunks
Generated(i) == ipc[i] \in {"push", "done"}

\* the units of cs that contain identifier x
UnitsWith(cs, x) == {k \in DOMAIN cs : cs[k][1] <= x /\ x < cs[k][2]}

\* C4: the work units generated by queue initialisation cover
\* [range_start, range_end) exactly and disjointly: every ID of the range
\* lies in exactly one unit and no unit contains an ID outside the range.
C4_PartitionCovers ==
    \A i \in Inits :
       Generated(i) =>
          /\ \A x \in ID_RANGE_START..(ID_RANGE_END - 1) :
                Cardinality(UnitsWith(chunks[i], x)) = 1
          /\ \A k \in DOMAIN chunks[i] :
                /\ ID_RANGE_START <= chunks[i][k][1]
                /\ chunks[i][k][1] < chunks[i][k][2]
                /\ chunks[i][k][2] <= ID_RANGE_END

\* a range that is no multiple of the chunk size: several units, the last
\* one clipped
C4_Witness ==
    \E i \in Inits :
       /\ ipc[i] = "done"
       /\ Len(chunks[i]) >= 2
       /\ chunks[i][Len(chunks[i])][2] - chunks[i][Len(chunks[i])][1] < CHUNK_SIZE

\* every unit there is: queued, held, consumed or once loaded
AllUnits ==
    Range(queue) \cup {held[w] : w \in {x \in Workers : held[x] # <<>>}}
       \cup DOMAIN consumed \cup DOMAIN loaded

Holders(u) == {w \in Workers : held[w] = u}

\* copies of unit u in the queue or held by a worker
InSystem(u) == Count(queue, u) + Cardinality(Holders(u))

\* C7: under claim and release the multiset of units that are in the queue or
\* held by a worker is invariant (claim moves one unit from the queue to the
\* claimant, release moves it back); counted with the units consumed it is
\* the multiset initialisation loaded, so with no unit held the queue is
\* empty iff all units have been consumed.
C7_QueueConservation ==
    /\ [](\A u \in AllUnits : InSystem(u) + CopiesIn(u, consumed) = CopiesIn(u, loaded))
    /\ []((\A w \in Workers : held[w] = <<>>)
             => (queue = <<>> <=> \A u \in AllUnits : CopiesIn(u, consumed) = CopiesIn(u, loaded)))
    /\ [][(\E w \in Workers : Claim(w) \/ Release(w))
             => \A u \in AllUnits \cup AllUnits' : InSystem(u)' = InSystem(u)]_vars

\* a unit was claimed, released, claimed again and consumed, the queue is
\* drained and nothing is held
C7_Witness ==
    /\ releases = 1
    /\ Len(claim_log) >= 3
    /\ queue = <<>>
    /\ \A w \in Workers : held[w] = <<>>
    /\ BagCardinality(consumed) >= 2

\* C8: claim() returns units in FIFO order, the order in which initialisation
\* and releases pushed them: the k-th claim returns the k-th unit pushed, the
\* units still queued are the ones pushed after those; so no pushed unit is
\* returned to two claimants unless it was released (pushed again) in between.
C8_ClaimFifo ==
    /\ Len(claim_log) <= Len(push_log)
    /\ \A k \in 1..Len(claim_log) : claim_log[k] = push_log[k]
    /\ queue = SubSeq(push_log, Len(claim_log) + 1, Len(push_log))

\* both workers hold a unit, three claims so far, one of them of a released
\* unit, from an initialisation of several units
C8_Witness ==
    /\ \A w \in Workers : held[w] # <<>>
    /\ releases = 1
    /\ Len(claim_log) >= 3
    /\ claim_log[1] # claim_log[2]

\* C9 as stated: initialisation without clear on a non-empty queue pushes
\* nothing and leaves the queue unchanged; with clear it replaces the queue
\* by exactly the freshly generated units.
C9_AsStated ==
    /\ [][\A i \in Inits :
             (~clear[i] /\ queue # <<>> /\ InitQueueLlen(i))
                => (queue' = queue /\ ipc'[i] = "refused")]_vars
    /\ [](\A i \in Inits :
             ipc[i] = "refused" => (push_index[i] = 0 /\ chunks[i] = <<>>))
    /\ [][\A i \in Inits :
             (clear[i] /\ ipc[i] \in {"delete", "push"} /\ ipc'[i] = "done")
                => queue' = GenChunks(ID_RANGE_START, ID_RANGE_END, CHUNK_SIZE)]_vars

\* C9: initialisation without clear that finds the queue non-empty pushes
\* nothing and leaves the queue unchanged; with clear it empties the queue
\* and, when no other process changes the queue between its delete and its
\* last push, leaves the queue holding exactly the freshly generated units.
C9_InitRefusesOrReplaces ==
    /\ [][\A i \in Inits :
             (~clear[i] /\ queue # <<>> /\ InitQueueLlen(i))
                => (queue' = queue /\ ipc'[i] = "refused")]_vars
    /\ [](\A i \in Inits :
             ipc[i] = "refused" => (push_index[i] = 0 /\ chunks[i] = <<>>))
    /\ [][\A i \in Inits : ipc[i] = "refused" => ipc'[i] = "refused"]_vars
    /\ [][\A i \in Inits :
             (clear[i] /\ InitQueueDelete(i)) => queue' = <<>>]_vars
    /\ [][\A i \in Inits :
             (clear[i] /\ solo[i] /\ ipc[i] \in {"delete", "push"} /\ ipc'[i] = "done")
                => queue' = GenChunks(ID_RANGE_START, ID_RANGE_END, CHUNK_SIZE)]_vars

\* one run refused a non-empty queue, the other cleared a non-empty queue
\* and replaced it, undisturbed, by several units pushed in two batches
C9_Witness ==
    \E i, j \in Inits :
       /\ ipc[i] = "refused"
       /\ ipc[j] = "done" /\ clear[j] /\ solo[j] /\ current_len[j] = 0
       /\ Len(chunks[j]) > PUSH_BATCH_SIZE
       /\ queue = chunks[j]
       /\ Len(push_log) > Len(queue)

\* ------------------------------------------------------------------------
\* Adaptive fetch controller: DistributedScraper.fetch_batch / adjust_rate
\* ------------------------------------------------------------------------

\* what one fetch_one of a round meets, <<kind, elapsed seconds>>: a 200
\* response, a response with another status, an exception before any response
FastOk == <<"ok", 1>>
MidOk == <<"ok", 3>>
SlowOk == <<"ok", 6>>
FastErr == <<"status", 1>>
Raises == <<"raise", 0>>

\* the rounds of the stream: the fetches of a round meet the outcomes of the
\* pattern in turn, over and over
RoundPatterns ==
    {<<FastOk>>, <<MidOk>>, <<SlowOk>>, <<FastErr>>, <<Raises>>,
     <<FastOk, FastOk, FastOk, FastErr>>}

\* deque(maxlen=50) after the appends of xs in turn: each append to a full
\* window drops its oldest entry, so the last 50 values stay
deque_append(d, xs) ==
    LET all == d \o xs IN
    IF Len(all) <= response_times_maxlen THEN all
    ELSE SubSeq(all, Len(all) - response_times_maxlen + 1, Len(all))

\* the controller's measurements
Meter(rt, sc, ec) == [response_times |-> rt, success_count |-> sc, error_count |-> ec]

\* main.py 289, 319: the value fetch_one appends to response_times, elapsed
\* for a response and REQUEST_TIMEOUT for an exception
sample(o) == IF o[1] = "raise" THEN REQUEST_TIMEOUT ELSE o[2]

\* main.py 291-297: fetch_one counts a success for a 200 response; main.py
\* 314-318: it counts an error for any other status and for an exception
succeeds(o) == o[1] = "ok"

\* main.py 263-267: the round's n fetch_one tasks gathered, the k-th meeting
\* the k-th outcome of the pattern repeated
gather(m, pattern, n) ==
    LET outcome == [k \in 1..n |-> pattern[((k - 1) % Len(pattern)) + 1]] IN
    Meter(deque_append(m.response_times, [k \in 1..n |-> sample(outcome[k])]),
          m.success_count + Cardinality({k \in 1..n : succeeds(outcome[k])}),
          m.error_count + Cardinality({k \in 1..n : ~succeeds(outcome[k])}))

\* sum(s), value by value
RECURSIVE SumOfValues(_, _)
SumOfValues(s, values) ==
    IF values = {} THEN 0
    ELSE LET v == CHOOSE x \in values : TRUE IN
         v * Cardinality({k \in DOMAIN s : s[k] = v}) + SumOfValues(s, values \ {v})

Sum(s) == SumOfValues(s, Range(s))

\* mutant: the rate is taken from any number of outcomes
get_error_rate_any_sample(m) ==
    LET total == m.success_count + m.error_count IN
    IF total = 0 THEN <<0, 1>> ELSE <<m.error_count, total>>

\* main.py 233-237, the rate as numerator and denominator
get_error_rate(m) ==
    LET total == m.success_count + m.error_count IN
    IF total < 10 THEN <<0, 1>> ELSE <<m.error_count, total>>

\* main.py 239-242, the average as numerator and denominator
get_avg_response_time(m) ==
    IF m.response_times = <<>> THEN <<0, 1>>
    ELSE <<Sum(m.response_times), Len(m.response_times)>>

\* q > num / den and q < num / den, for a quotient q of naturals
Above(q, num, den) == q[1] * den > num * q[2]
Below(q, num, den) == q[1] * den < num * q[2]

\* mutant: the error rate does not throttle
Throttled_latency_only(m) ==
    Above(get_avg_response_time(m), throttle_threshold, 1)

\* main.py 248: avg_time > throttle_threshold or error_rate > error_threshold
Throttled(m) ==
    \/ Above(get_avg_response_time(m), throttle_threshold, 1)
    \/ Above(get_error_rate(m), error_threshold[1], error_threshold[2])

\* mutant: the error rate does not hold growth back
Comfortable_latency_only(m) ==
    /\ ~Throttled(m)
    /\ Below(get_avg_response_time(m), 2, 1)

\* main.py 253: avg_time < 2.0 and error_rate < 0.1
Comfortable(m) ==
    /\ ~Throttled(m)
    /\ Below(get_avg_response_time(m), 2, 1)
    /\ Below(get_error_rate(m), 1, 10)

Max(a, b) == IF a >= b THEN a ELSE b

\* mutant: the shrunk size is not floored at the minimum
shrink_unfloored(size) == (size * 8) \div 10

\* main.py 249: max(self.min_batch_size, int(self.current_batch_size * 0.8))
shrink(size) == Max(min_batch_size, (size * 8) \div 10)

\* mutant: the grown size is not capped at the maximum
grow_uncapped(size) == (size * 11) \div 10

\* main.py 254: min(self.max_batch_size, int(self.current_batch_size * 1.1))
grow(size) == Min(max_batch_size, (size * 11) \div 10)

\* main.py 244-256: the batch size adjust_rate leaves
adjust_rate(size, m) ==
    IF Throttled(m)
    THEN IF shrink(size) < size THEN shrink(size) ELSE size
    ELSE IF Comfortable(m)
    THEN IF grow(size) > size THEN grow(size) ELSE size
    ELSE size

\* mutant: the counters are never started over
CountersExpired_never(m) == FALSE

\* main.py 258-260: the counters start over once they exceed 100
CountersExpired(m) == m.success_count + m.error_count > 100

\* the measurements as the round of this pattern leaves them for adjust_rate
Measured(pattern) ==
    gather(Meter(response_times, success_count, error_count), pattern,
           current_batch_size)

\* the streak after an adjustment over measurements m
NextStreak(m) ==
    IF Throttled(m) THEN Min(ShrinkRounds, Max(streak, 0) + 1)
    ELSE IF Comfortable(m) THEN Max(0 - ShrinkRounds, Min(streak, 0) - 1)
    ELSE 0

\* main.py 262-275, fetch_batch: one round of current_batch_size fetches,
\* then adjust_rate. The stream feeds the rounds one pattern of outcomes and
\* changes to another pattern at most MaxSwitches times.
FetchBatchAdjust(pattern) ==
    /\ \/ pattern = last_pattern /\ UNCHANGED switches
       \/ last_pattern = <<>> /\ UNCHANGED switches
       \/ /\ last_pattern # <<>>
          /\ pattern # last_pattern
          /\ switches < MaxSwitches
          /\ switches' = switches + 1
    /\ last_pattern' = pattern
    /\ LET m == Measured(pattern) IN
       /\ current_batch_size' = adjust_rate(current_batch_size, m)
       /\ response_times' = m.response_times
       /\ success_count' = IF CountersExpired(m) THEN 0 ELSE m.success_count
       /\ error_count' = IF CountersExpired(m) THEN 0 ELSE m.error_count
       /\ streak' = NextStreak(m)
       /\ floored' = (floored \/ NextStreak(m) >= ShrinkRounds)
    /\ UNCHANGED <<storeVars, workerVars, queueVars, auxVars>>

InitCtl ==
    /\ InitController
    /\ InitAux
    /\ InitQueueIdle
    /\ seen_ids = {}
    /\ connected = [c \in Workers |-> FALSE]
    /\ hist = <<>>
    /\ InitWorkers
    /\ target = [w \in Workers |-> 1]

NextCtl == \E pattern \in RoundPatterns : FetchBatchAdjust(pattern)

SpecCtl == InitCtl /\ [][NextCtl]_vars

\* every fetch of the round is answered in under 2 seconds and fewer than one
\* in ten of them fail
LowRound(pattern) ==
    /\ \A k \in DOMAIN pattern : pattern[k][1] # "raise" /\ pattern[k][2] < 2
    /\ 10 * Cardinality({k \in DOMAIN pattern : pattern[k][1] # "ok"}) < Len(pattern)

\* C10 as stated: whenever the adjustment sees the throttle condition the
\* batch size does not grow, and it is at the minimum after ShrinkRounds such
\* rounds in a row; whenever the round has low latency and a low error rate the
\* batch size does not shrink and stays within the maximum.
C10_AsStated ==
    /\ [][\A pattern \in RoundPatterns :
             (Throttled(Measured(pattern)) /\ FetchBatchAdjust(pattern))
                => current_batch_size' <= current_batch_size]_vars
    /\ [](streak >= ShrinkRounds => current_batch_size = min_batch_size)
    /\ [][\A pattern \in RoundPatterns :
             (LowRound(pattern) /\ FetchBatchAdjust(pattern))
                => /\ current_batch_size' >= current_batch_size
                   /\ current_batch_size' <= max_batch_size]_vars

\* C10: whenever the adjustment sees average latency above the throttle
\* threshold or error rate above the error threshold the batch size does not
\* grow, and after ShrinkRounds such adjustments in a row it is at the
\* configured minimum; whenever the adjustment sees low average latency and
\* low error rate the batch size does not shrink; it never exceeds the
\* configured maximum nor falls below the minimum.
C10_MonotonicResponse ==
    /\ [][\A pattern \in RoundPatterns :
             (Throttled(Measured(pattern)) /\ FetchBatchAdjust(pattern))
                => current_batch_size' <= current_batch_size]_vars
    /\ [](streak >= ShrinkRounds => current_batch_size = min_batch_size)
    /\ [][\A pattern \in RoundPatterns :
             (Comfortable(Measured(pattern)) /\ FetchBatchAdjust(pattern))
                => current_batch_size' >= current_batch_size]_vars
    /\ [](min_batch_size <= current_batch_size /\ current_batch_size <= max_batch_size)

\* the batch size was driven to the minimum by ShrinkRounds throttled rounds
\* in a row and has since grown again over several comfortable rounds
C10_Witness ==
    /\ floored
    /\ streak <= 0 - 3
    /\ current_batch_size >= min_batch_size + 3
    /\ current_batch_size < max_batch_size

\* C22: whenever adjust_rate sees the average latency of the window above the
\* throttle threshold or the error rate above the error threshold, the batch
\* size becomes max(min_batch_size, floor(0.8 * current)), also when the
\* latency or the error rate alone would allow growth.
C22_ThrottleShrinks ==
    [][\A pattern \in RoundPatterns :
          LET m == Measured(pattern) IN
          (/\ FetchBatchAdjust(pattern)
           /\ \/ Sum(m.response_times) > throttle_threshold * Len(m.response_times)
              \/ /\ m.success_count + m.error_count >= 10
                 /\ m.error_count * error_threshold[2]
                       > error_threshold[1] * (m.success_count + m.error_count))
             => current_batch_size'
                   = Max(min_batch_size, (current_batch_size * 8) \div 10)]_vars

\* a round of fast failures has just shrunk the batch: the error rate alone
\* throttled, at a latency that would allow growth
C22_Witness ==
    /\ last_pattern = <<FastErr>>
    /\ current_batch_size = (max_batch_size * 8) \div 10
    /\ Sum(response_times) < 2 * Len(response_times)

\* C23: whenever adjust_rate sees neither shrink condition, an average latency
\* below 2 seconds and an error rate below 0.1, the batch size becomes
\* min(max_batch_size, floor(1.1 * current)), which is larger than the current
\* size whenever that is below the maximum.
C23_ComfortGrows ==
    [][\A pattern \in RoundPatterns :
          LET m == Measured(pattern)
              total == m.success_count + m.error_count IN
          (/\ FetchBatchAdjust(pattern)
           /\ Sum(m.response_times) < 2 * Len(m.response_times)
           /\ total < 10 \/ m.error_count * 10 < total)
             => /\ current_batch_size'
                     = Min(max_batch_size, (current_batch_size * 11) \div 10)
                /\ current_batch_size < max_batch_size
                     => current_batch_size' > current_batch_size]_vars

\* the batch, once shrunk to the minimum, has grown by one comfortable round
C23_Witness ==
    /\ floored
    /\ streak = 0 - 1
    /\ current_batch_size = (min_batch_size * 11) \div 10

\* C24: whenever adjust_rate sees neither a shrink condition nor the growth
\* condition, it leaves the batch size as it is.
C24_OtherwiseUnchanged ==
    [][\A pattern \in RoundPatterns :
          LET m == Measured(pattern)
              total == m.success_count + m.error_count IN
          (/\ FetchBatchAdjust(pattern)
           /\ Sum(m.response_times) <= throttle_threshold * Len(m.response_times)
           /\ total < 10
                 \/ m.error_count * error_threshold[2] <= error_threshold[1] * total
           /\ \/ Sum(m.response_times) >= 2 * Len(m.response_times)
              \/ total >= 10 /\ m.error_count * 10 >= total)
             => current_batch_size' = current_batch_size]_vars

\* a batch that was shrunk to the minimum and may grow or shrink has just been
\* left as it was by an adjustment that saw neither condition
C24_Witness ==
    /\ floored
    /\ streak = 0
    /\ last_pattern # <<>>
    /\ current_batch_size > min_batch_size
    /\ current_batch_size < max_batch_size

\* C25: in every reachable state the batch size is at least min_batch_size
\* and at most max_batch_size.
C25_BatchSizeInBounds ==
    /\ min_batch_size <= current_batch_size
    /\ current_batch_size <= max_batch_size

\* the batch size has been shrunk down to the minimum and has since grown
\* back up to the maximum
C25_Witness ==
    /\ floored
    /\ streak < 0
    /\ current_batch_size = max_batch_size

\* C27: adjust_rate sets both counters to zero exactly when their sum exceeds
\* 100 and leaves them as the round left them otherwise; so after every
\* adjust_rate the two counters add up to at most 100, and the latency window
\* never holds more than response_times_maxlen samples.
C27_CountersAndWindowBounded ==
    /\ [][\A pattern \in RoundPatterns :
             LET m == Measured(pattern) IN
             FetchBatchAdjust(pattern)
                => IF m.success_count + m.error_count > 100
                   THEN success_count' = 0 /\ error_count' = 0
                   ELSE /\ success_count' = m.success_count
                        /\ error_count' = m.error_count]_vars
    /\ [](success_count + error_count <= 100)
    /\ [](Len(response_times) <= response_times_maxlen)

\* the counters were started over by an adjustment that followed a round of
\* successes and failures, with the window full
C27_Witness ==
    /\ Len(last_pattern) > 1
    /\ success_count = 0
    /\ error_count = 0
    /\ Len(response_times) = response_times_maxlen

\* ------------------------------------------------------------------------
\* Node registry: RedisDedup.update_node_status (main.py 102-110)
\* ------------------------------------------------------------------------

\* HSET key field value: the hash afterwards
hset(hash, field, value) ==
    [n \in DOMAIN hash \cup {field} |-> IF n = field THEN value ELSE hash[n]]

\* EXPIRE key seconds, at time t: the time at which the key expires; a key
\* that does not exist gets no expiry
expire(hash, seconds, t) == IF DOMAIN hash = {} THEN 0 - 1 ELSE t + seconds

\* where an exception hits update_node_status: nowhere; in hset before the
\* command ran; in hset after it ran or in expire before it ran; in expire
\* after it ran (the bare except swallows each)
StatusOutcomes == {"ok", "hset_raises", "expire_raises", "expire_reply_lost"}

\* update_node_status: has the HSET taken effect, has the EXPIRE
HsetDone(f) == f # "hset_raises"
ExpireDone(f) == f \in {"ok", "expire_reply_lost"}

\* main.py 102-110, update_node_status of node w: nothing on a handle that is
\* not connected; else the node's field is set and the TTL of the whole hash
\* is set to NODE_STATUS_TTL
update_node_status(w, f) ==
    IF ~connected[w] \/ ~HsetDone(f)
    THEN UNCHANGED <<node_status, expire_at>>
    ELSE /\ node_status' = hset(node_status, w, now)
         /\ expire_at' = IF ExpireDone(f)
                         THEN expire(hset(node_status, w, now), NODE_STATUS_TTL, now)
                         ELSE expire_at

\* run(), main.py 381-382: the heartbeat of node w after a round
Heartbeat(w, f) ==
    /\ update_node_status(w, f)
    /\ UNCHANGED <<now, drainVars, REDIS_HOST, recent_results, monitorVars, roundVars,
                   save_log, faults>>
    /\ UNCHANGED <<storeVars, workerVars, queueVars, ctlVars>>

\* TickSeconds pass; Redis deletes a key whose expiry time has come
Tick ==
    /\ now + TickSeconds <= MaxTime
    /\ now' = now + TickSeconds
    /\ IF expire_at # 0 - 1 /\ now + TickSeconds >= expire_at
       THEN node_status' = <<>> /\ expire_at' = 0 - 1
       ELSE UNCHANGED <<node_status, expire_at>>
    /\ UNCHANGED <<drainVars, REDIS_HOST, recent_results, monitorVars, roundVars, save_log,
                   faults>>
    /\ UNCHANGED <<storeVars, workerVars, queueVars, ctlVars>>

\* nodes started with the store reachable or not
InitRegistry ==
    /\ InitQueueIdle
    /\ seen_ids = {}
    /\ connected \in [Workers -> BOOLEAN]
    /\ hist = <<>>
    /\ InitWorkers
    /\ InitController
    /\ InitAux
    /\ target = [w \in Workers |-> 1]

NextRegistry ==
    \/ \E w \in Workers, f \in StatusOutcomes : Heartbeat(w, f)
    \/ Tick

SpecRegistry == InitRegistry /\ [][NextRegistry]_vars

\* C13: while the registry key carries a TTL, no entry of the Node Registry
\* is older than the TTL: the entry of a node that has not sent a heartbeat
\* for NODE_STATUS_TTL seconds is gone, also while other nodes keep sending
\* heartbeats.
C13_EntryExpiresPerNode ==
    expire_at # 0 - 1
       => \A n \in DOMAIN node_status : now - node_status[n] < NODE_STATUS_TTL

\* ------------------------------------------------------------------------
\* Store connectivity (C15), checked under SpecStore
\* ------------------------------------------------------------------------

\* the step is a store operation that raised on a handle marked connected
\* (every handle was)
RaisedCall ==
    /\ Len(hist') = Len(hist) + 1
    /\ \A c \in Workers : connected[c]
    /\ ~hist'[Len(hist')].ok

\* C15: a store operation that fails with a connectivity error leaves the
\* handle it was made on marked disconnected (so that a later operation
\* attempts to reconnect).
C15_FailureMarksDisconnected ==
    [][RaisedCall => \E c \in Workers : ~connected'[c]]_vars

\* ------------------------------------------------------------------------
\* One worker process with failing file and store operations
\* ------------------------------------------------------------------------

\* the node whose process is followed through failures and restarts
OneWorker == {"w1"}

\* mutant: the header row is written by every flush
write_header_always(file) == <<HEADER>>

\* save_buffer (main.py 207-212): the header row is written when the output
\* file does not exist or is empty
write_header(file) == IF file = <<>> THEN <<HEADER>> ELSE <<>>

\* how save_buffer can end on a buffer of n records: "ok"; the stat or the
\* open of the output file raises; writing the output file raises after k
\* rows; the open of the seen-identifiers file raises
SaveOutcomes(n) ==
    IF n = 0 THEN {<<"ok", 0>>}
    ELSE {<<"ok", 0>>, <<"open_raises", 0>>}
            \cup {<<"write_raises", k>> : k \in 0..n}
            \cup {<<"seen_raises", 0>>}

\* the operation ending as f counts as n more failures, within MaxFaults
Fails(failed, n) ==
    /\ faults + (IF failed THEN n ELSE 0) <= MaxFaults
    /\ faults' = faults + (IF failed THEN n ELSE 0)

\* save_buffer (main.py 206-213): the output file afterwards
save_output(file, buffer, f) ==
    IF buffer = <<>> \/ f[1] = "open_raises" THEN file
    ELSE IF f[1] = "write_raises"
    THEN file \o write_header(file) \o SubSeq(buffer, 1, f[2])
    ELSE file \o write_header(file) \o buffer

\* save_buffer (main.py 215-218): the seen-identifiers file afterwards
save_seen(file, buffer, f) ==
    IF f[1] = "ok" THEN file \o buffer
    ELSE IF f[1] = "seen_raises" THEN file \o SubSeq(buffer, 1, f[2])
    ELSE file

\* mutant: the buffer is emptied whether or not the writes succeeded
save_left_dropped(buffer, f) == <<>>

\* save_buffer (main.py 220-225): the buffer afterwards, emptied only when
\* no write raised
save_left(buffer, f) == IF f[1] = "ok" THEN <<>> ELSE buffer

\* save_buffer of worker w ending as f
SaveBufferF(w, f) ==
    /\ output_file' = [output_file EXCEPT ![w] = save_output(@, products_buffer[w], f)]
    /\ seen_ids_file' = [seen_ids_file EXCEPT ![w] = save_seen(@, products_buffer[w], f)]
    /\ products_buffer' = [products_buffer EXCEPT ![w] = save_left(@, f)]
    /\ save_log' = IF products_buffer[w] = <<>> THEN save_log
                   ELSE [save_log EXCEPT ![w] =
                           Append(@, [held |-> products_buffer[w], ok |-> f[1] = "ok"])]

\* load_seen_ids (main.py 146-165): read_ok: the seen-identifiers file is
\* read without an exception (a file that does not exist is not read);
\* ping_ok: REDIS_HOST is set and the ping is answered
LoadSeenIdsF(w, read_ok, ping_ok) ==
    /\ wpc[w] = "start"
    /\ ~read_ok => seen_ids_file[w] # <<>>
    /\ ping_ok => REDIS_HOST[w]
    /\ LET ids == IF read_ok THEN Range(seen_ids_file[w]) ELSE {} IN
          /\ local_seen_ids' = [local_seen_ids EXCEPT ![w] = ids]
          /\ unique_products' = [unique_products EXCEPT ![w] = Cardinality(ids)]
          /\ last_save_count' = [last_save_count EXCEPT ![w] = Cardinality(ids)]
          /\ wpc' = [wpc EXCEPT ![w] =
                        IF ping_ok /\ ids # {} THEN "sync"
                        ELSE IF Cardinality(ids) >= target[w] THEN "exit"
                        ELSE "run"]
    /\ connected' = [connected EXCEPT ![w] = ping_ok]
    /\ use_redis' = [use_redis EXCEPT ![w] = ping_ok]
    /\ Fails(~read_ok, 1)
    /\ UNCHANGED <<seen_ids, hist, products_buffer, target, task, output_file,
                   seen_ids_file, rounds, life_start>>
    /\ UNCHANGED <<queueVars, ctlVars, registryVars, drainVars, REDIS_HOST, recent_results,
                   monitorVars, roundVars, save_log>>

\* sync_local_to_redis (main.py 167-185), the SADD ending as f
SyncLocalToRedisF(w, f) ==
    /\ wpc[w] = "sync"
    /\ \E pids \in [1..Cardinality(local_seen_ids[w]) -> local_seen_ids[w]] :
          /\ Range(pids) = local_seen_ids[w]
          /\ seen_ids' = add_seen_batch_store(w, pids, f)
    /\ wpc' = [wpc EXCEPT ![w] = IF unique_products[w] >= target[w] THEN "exit" ELSE "run"]
    /\ Fails(f # "ok", 1)
    /\ UNCHANGED <<connected, hist, use_redis, local_seen_ids, products_buffer,
                   unique_products, last_save_count, target, task, output_file,
                   seen_ids_file, rounds, life_start>>
    /\ UNCHANGED <<queueVars, ctlVars, registryVars, drainVars, REDIS_HOST, recent_results,
                   monitorVars, roundVars, save_log>>

\* fetch_one resumes from `await self.is_product_seen(pid)`, the SISMEMBER
\* ending as f (main.py 302-304, 70-76)
IsProductSeenReplyF(w, t, f) ==
    /\ wpc[w] = "round"
    /\ task[w][t].pc = "is_seen"
    /\ LET pid == Head(task[w][t].products) IN
          IF is_seen(w, pid, f)
          THEN Resume(w, t, ProductLoop(TRUE, Mem(w), Tail(task[w][t].products)))
          ELSE /\ local_seen_ids' = [local_seen_ids EXCEPT ![w] = @ \cup {pid}]
               /\ task' = [task EXCEPT ![w][t].pc = "add_seen"]
               /\ UNCHANGED <<products_buffer, unique_products>>
    /\ Fails(f # "ok", 1)
    /\ UNCHANGED <<storeVars, wpc, use_redis, last_save_count, target,
                   output_file, seen_ids_file, rounds, life_start>>
    /\ UNCHANGED <<queueVars, ctlVars, registryVars, drainVars, REDIS_HOST, recent_results,
                   monitorVars, roundVars, save_log>>

\* fetch_one resumes from `await self.mark_product_seen(pid)`, the SADD
\* ending as f (main.py 304-309, 78-84)
MarkProductSeenReplyF(w, t, f) ==
    /\ wpc[w] = "round"
    /\ task[w][t].pc = "add_seen"
    /\ LET pid == Head(task[w][t].products) IN
          /\ seen_ids' = add_seen_store(w, pid, f)
          /\ Resume(w, t, ProductLoop(TRUE,
                                      AfterMark(Mem(w), pid, add_seen(w, pid, f)),
                                      Tail(task[w][t].products)))
    /\ Fails(f # "ok", 1)
    /\ UNCHANGED <<connected, hist, wpc, use_redis, last_save_count, target,
                   output_file, seen_ids_file, rounds, life_start>>
    /\ UNCHANGED <<queueVars, ctlVars, registryVars, drainVars, REDIS_HOST, recent_results,
                   monitorVars, roundVars, save_log>>

\* run(), after fetch_batch has gathered the round (main.py 376-408): the
\* heartbeat ending as hf (with use_redis), the periodic save ending as f
EndRoundF(w, hf, f) ==
    /\ wpc[w] = "round"
    /\ \A t \in Tasks : task[w][t].pc = "done"
    /\ task' = [task EXCEPT ![w] = [t \in Tasks |-> NoTask]]
    /\ wpc' = [wpc EXCEPT ![w] = "run"]
    /\ IF use_redis[w] THEN update_node_status(w, hf)
       ELSE hf = "ok" /\ UNCHANGED <<node_status, expire_at>>
    /\ IF unique_products[w] - last_save_count[w] >= SAVE_INTERVAL
       THEN /\ SaveBufferF(w, f)
            /\ last_save_count' = [last_save_count EXCEPT ![w] = unique_products[w]]
       ELSE /\ f[1] = "ok"
            /\ UNCHANGED <<output_file, seen_ids_file, products_buffer,
                           last_save_count, save_log>>
    /\ Fails(TRUE, (IF hf # "ok" THEN 1 ELSE 0) + (IF f[1] # "ok" THEN 1 ELSE 0))
    /\ UNCHANGED <<storeVars, use_redis, local_seen_ids, unique_products, target,
                   rounds, life_start>>
    /\ UNCHANGED <<queueVars, ctlVars, now, drainVars, REDIS_HOST, recent_results,
                   monitorVars, roundVars>>

\* run(), the loop ends with the target reached: final save (main.py 410-412)
FinalSaveF(w, f) ==
    /\ wpc[w] = "run"
    /\ unique_products[w] >= target[w]
    /\ SaveBufferF(w, f)
    /\ Fails(f[1] # "ok", 1)
    /\ wpc' = [wpc EXCEPT ![w] = "exit"]
    /\ UNCHANGED <<storeVars, use_redis, local_seen_ids, unique_products,
                   last_save_count, target, task, rounds, life_start>>
    /\ UNCHANGED <<queueVars, ctlVars, registryVars, drainVars, REDIS_HOST, recent_results,
                   monitorVars, roundVars>>

\* main(), KeyboardInterrupt (main.py 448-454): the coroutines are cancelled,
\* the buffer is saved, the save ending as f; the process exits
InterruptF(w, f) ==
    /\ wpc[w] \in {"sync", "run", "round"}
    /\ SaveBufferF(w, f)
    /\ Fails(f[1] # "ok", 1)
    /\ task' = [task EXCEPT ![w] = [t \in Tasks |-> NoTask]]
    /\ wpc' = [wpc EXCEPT ![w] = "exit"]
    /\ UNCHANGED <<storeVars, use_redis, local_seen_ids, unique_products,
                   last_save_count, target, rounds, life_start>>
    /\ UNCHANGED <<queueVars, ctlVars, registryVars, drainVars, REDIS_HOST, recent_results,
                   monitorVars, roundVars>>

\* main() (main.py 429-446): the program is started again; with --fresh the
\* local files are deleted first
RestartF(w, fresh) ==
    /\ wpc[w] = "exit"
    /\ rounds[w] < MaxRounds
    /\ wpc' = [wpc EXCEPT ![w] = "start"]
    /\ use_redis' = [use_redis EXCEPT ![w] = FALSE]
    /\ connected' = [connected EXCEPT ![w] = FALSE]
    /\ local_seen_ids' = [local_seen_ids EXCEPT ![w] = {}]
    /\ products_buffer' = [products_buffer EXCEPT ![w] = <<>>]
    /\ unique_products' = [unique_products EXCEPT ![w] = 0]
    /\ last_save_count' = [last_save_count EXCEPT ![w] = 0]
    /\ output_file' = [output_file EXCEPT ![w] = IF fresh THEN <<>> ELSE @]
    /\ seen_ids_file' = [seen_ids_file EXCEPT ![w] = IF fresh THEN <<>> ELSE @]
    /\ life_start' = [life_start EXCEPT ![w] = Len(output_file'[w])]
    /\ save_log' = [save_log EXCEPT ![w] = <<>>]
    /\ UNCHANGED <<seen_ids, hist, target, task, rounds>>
    /\ UNCHANGED <<queueVars, ctlVars, registryVars, drainVars, REDIS_HOST, recent_results,
                   monitorVars, roundVars, faults>>

\* the API responses and the targets (--target) the failing runs are given
FaultResponses == {<<>>, <<"7">>, <<"9">>}

FaultTargets == {1, 2, 3}

\* a node configured with or without a Redis host, nothing on disk
InitFaultsNode ==
    /\ seen_ids = {}
    /\ connected = [c \in Workers |-> FALSE]
    /\ hist = <<>>
    /\ InitWorkers
    /\ InitController
    /\ node_status = <<>>
    /\ expire_at = 0 - 1
    /\ now = 0
    /\ cstate = [w \in Workers |-> "idle"]
    /\ empties = [w \in Workers |-> 0]
    /\ \E b \in BOOLEAN : REDIS_HOST = [w \in Workers |-> w \notin OneWorker \/ b]
    /\ save_log = [w \in Workers |-> <<>>]
    /\ faults = 0
    /\ node_rate = [w \in Workers |-> 0]
    /\ display = <<>>
    /\ pending = 0
    /\ adjusted = 0
    /\ recent_results = [w \in Workers |-> <<>>]
    /\ \E n \in FaultTargets :
          target = [w \in Workers |-> IF w \in OneWorker THEN n ELSE 1]

InitFaults == InitQueueIdle /\ InitFaultsNode

NextFaults ==
    \/ \E w \in OneWorker, r \in BOOLEAN, b \in BOOLEAN : LoadSeenIdsF(w, r, b)
    \/ \E w \in OneWorker, f \in Outcomes : SyncLocalToRedisF(w, f)
    \/ \E w \in OneWorker : FetchBatch(w)
    \/ \E w \in OneWorker, t \in Tasks, prods \in FaultResponses : FetchOneOk(w, t, prods)
    \/ \E w \in OneWorker, t \in Tasks : FetchOneFail(w, t)
    \/ \E w \in OneWorker, t \in Tasks, f \in Outcomes : IsProductSeenReplyF(w, t, f)
    \/ \E w \in OneWorker, t \in Tasks, f \in Outcomes : MarkProductSeenReplyF(w, t, f)
    \/ \E w \in OneWorker, hf \in StatusOutcomes :
          \E f \in SaveOutcomes(Len(products_buffer[w])) : EndRoundF(w, hf, f)
    \/ \E w \in OneWorker :
          \E f \in SaveOutcomes(Len(products_buffer[w])) : FinalSaveF(w, f)
    \/ \E w \in OneWorker :
          \E f \in SaveOutcomes(Len(products_buffer[w])) : InterruptF(w, f)
    \/ \E w \in OneWorker, fresh \in BOOLEAN : RestartF(w, fresh)

SpecFaults == InitFaults /\ [][NextFaults]_vars

\* ------------------------------------------------------------------------
\* Failing store operations (C14), checked under SpecFaults
\* ------------------------------------------------------------------------

\* what the RedisDedup methods return on a handle that is not connected or
\* when the command raises
FailSoftReturns ==
    \A c \in Workers, f \in Outcomes :
       (~connected[c] \/ f # "ok")
          => /\ get_count(c, f) = 0
             /\ \A pid \in PRODUCT_IDS : ~is_seen(c, pid, f) /\ ~add_seen(c, pid, f)
             /\ \A pids \in BatchArgs : add_seen_batch(c, pids, f) = 0

\* C14: when the Dedup Store is disconnected or an operation on it raises,
\* the operation fails soft (is_seen and add_seen report false,
\* add_seen_batch and get_count report 0, update_node_status on a
\* disconnected handle changes nothing) and the worker keeps crawling: a
\* failed check lets the record through on the local set's verdict, a failed
\* mark still buffers the record, and no failure ends the run loop.
C14_StoreFailsSoft ==
    [][/\ FailSoftReturns
       /\ \A w \in OneWorker, t \in Tasks, f \in Outcomes \ {"ok"} :
             /\ IsProductSeenReplyF(w, t, f)
                   => /\ wpc'[w] = "round"
                      /\ task'[w][t].pc = "add_seen"
                      /\ Head(task[w][t].products) \in local_seen_ids'[w]
             /\ MarkProductSeenReplyF(w, t, f)
                   => /\ wpc'[w] = "round"
                      /\ task'[w][t].pc \in {"is_seen", "done"}
                      /\ products_buffer'[w] =
                            Append(products_buffer[w], Head(task[w][t].products))
             /\ SyncLocalToRedisF(w, f)
                   => wpc'[w] = IF unique_products[w] >= target[w] THEN "exit" ELSE "run"
       /\ \A w \in OneWorker, hf \in StatusOutcomes :
             (\E f \in SaveOutcomes(Len(products_buffer[w])) : EndRoundF(w, hf, f))
                => /\ wpc'[w] = "run"
                   /\ (~connected[w] \/ hf = "hset_raises")
                         => node_status' = node_status /\ expire_at' = expire_at
      ]_vars

\* a fleet-mode worker has finished a round in which the SADD of a new
\* record never reached the store: the record is buffered all the same and
\* the worker is ready for its next round
C14_Witness ==
    /\ use_redis["w1"] /\ connected["w1"]
    /\ seen_ids = {}
    /\ products_buffer["w1"] # <<>>
    /\ faults > 0
    /\ wpc["w1"] = "run"
    /\ unique_products["w1"] < target["w1"]

\* ------------------------------------------------------------------------
\* Startup with the store unreachable (C16), checked under SpecFaults
\* ------------------------------------------------------------------------

\* C16: a worker configured for fleet mode (REDIS_HOST set) whose connect at
\* startup failed issues no fetch: a round of fetches is under way only on a
\* node that runs without a host or whose connect succeeded.
C16_NoFetchWithoutStore ==
    \A w \in Workers : (REDIS_HOST[w] /\ wpc[w] = "round") => connected[w]

\* ------------------------------------------------------------------------
\* Flushing the write buffer (C17, C18), checked under SpecFaults
\* ------------------------------------------------------------------------

IsPrefix(a, b) == Len(a) <= Len(b) /\ SubSeq(b, 1, Len(a)) = a

IsSuffix(a, b) == Len(a) <= Len(b) /\ SubSeq(b, Len(b) - Len(a) + 1, Len(b)) = a

\* the step is a save_buffer call of worker w that found records
Flushes(w) == Len(save_log'[w]) = Len(save_log[w]) + 1

\* the save_buffer call this step made
Flushed(w) == save_log'[w][Len(save_log'[w])]

\* C17: a flush that fails drops no buffered record: the buffer afterwards
\* holds every record it held, in order; records leave the buffer of a
\* running process only by a flush that succeeds, and that flush appends
\* every record of the buffer to the output file.
C17_FailedFlushKeepsBuffer ==
    [][\A w \in OneWorker :
          /\ Flushes(w)
                => /\ Flushed(w).held = products_buffer[w]
                   /\ ~Flushed(w).ok => products_buffer'[w] = products_buffer[w]
                   /\ Flushed(w).ok
                         => /\ products_buffer'[w] = <<>>
                            /\ IsSuffix(products_buffer[w], output_file'[w])
                            /\ Len(output_file'[w]) >=
                                  Len(output_file[w]) + Len(products_buffer[w])
          /\ (wpc[w] # "exit" /\ ~IsPrefix(products_buffer[w], products_buffer'[w]))
                => Flushes(w) /\ Flushed(w).ok
      ]_vars

\* the periodic save of two records failed, the final save wrote both
C17_Witness ==
    /\ Len(save_log["w1"]) = 2
    /\ ~save_log["w1"][1].ok
    /\ Len(save_log["w1"][1].held) = 2
    /\ save_log["w1"][2].ok
    /\ IsPrefix(save_log["w1"][1].held, save_log["w1"][2].held)
    /\ IsSuffix(save_log["w1"][1].held, output_file["w1"])
    /\ products_buffer["w1"] = <<>>

\* the file is empty, or its first row is the header and no other row is
HeaderFirstOnly(file) == file = <<>> \/ (file[1] = HEADER /\ Count(file, HEADER) = 1)

\* C18: the output file holds exactly one header row, as its first row, and
\* a flush only appends to the file: the rows present before it stay as they
\* were.
C18_OneHeaderAppendOnly ==
    [][\A w \in OneWorker :
          /\ HeaderFirstOnly(output_file[w])
          /\ HeaderFirstOnly(output_file'[w])
          /\ Flushes(w) => IsPrefix(output_file[w], output_file'[w])
      ]_vars

\* a restarted process has appended a data row to the file its predecessor
\* left with the header and one row
C18_Witness ==
    /\ life_start["w1"] = 2
    /\ Len(output_file["w1"]) = 3
    /\ output_file["w1"][1] = HEADER
    /\ Len(save_log["w1"]) = 1
    /\ save_log["w1"][1].ok

\* ------------------------------------------------------------------------
\* Restart from the local files (C19), checked under SpecFaults
\* ------------------------------------------------------------------------

\* rows of the output file of w written by earlier processes, by this one
RowsBeforeRestart(w) == SubSeq(output_file[w], 1, life_start[w])

RowsThisLife(w) == SubSeq(output_file[w], life_start[w] + 1, Len(output_file[w]))

\* C19: a record that was persisted before the node's process crashed or
\* exited is never persisted again by the restarted process (the restart
\* loads every identifier of the local seen file into the local mirror
\* before its first fetch).
C19_NotPersistedAgain ==
    \A w \in Workers, pid \in PRODUCT_IDS :
       Count(RowsBeforeRestart(w), pid) > 0 => Count(RowsThisLife(w), pid) = 0

\* ------------------------------------------------------------------------
\* Interruption (C11): the worker of SpecFaults, holding a work unit
\* ------------------------------------------------------------------------

\* the queue as init_queue.py loaded it for the range 0..2, nothing claimed
InitInterrupt ==
    /\ ID_RANGE_START = 0
    /\ ID_RANGE_END = 2
    /\ CHUNK_SIZE = 1
    /\ queue = GenChunks(0, 2, 1)
    /\ push_log = queue
    /\ loaded = SeqToBag(queue)
    /\ ipc = [i \in Inits |-> "idle"]
    /\ clear = [i \in Inits |-> FALSE]
    /\ current_len = [i \in Inits |-> 0]
    /\ chunks = [i \in Inits |-> <<>>]
    /\ push_index = [i \in Inits |-> 0]
    /\ solo = [i \in Inits |-> TRUE]
    /\ held = [w \in Workers |-> <<>>]
    /\ consumed = EmptyBag
    /\ claim_log = <<>>
    /\ releases = 0
    /\ InitFaultsNode

NextInterrupt ==
    \/ NextFaults
    \/ \E w \in OneWorker : Claim(w)

SpecInterrupt == InitInterrupt /\ [][NextInterrupt]_vars

\* the step interrupts worker w during a round: the process exits
InterruptedInRound(w) == wpc[w] = "round" /\ wpc'[w] = "exit"

\* C11: when an interrupt arrives during a round, no fetch is left in
\* flight or issued afterwards, every record the buffer held at that moment
\* is written to the output file exactly once before the process exits, and
\* the work unit the worker held is back in the queue exactly once.
C11_GracefulDrain ==
    [][\A w \in OneWorker :
          InterruptedInRound(w)
             => /\ \A t \in Tasks : task'[w][t] = NoTask
                /\ output_file'[w] =
                      save_buffer_output(output_file[w], products_buffer[w])
                /\ held[w] # <<>>
                      => /\ held'[w] = <<>>
                         /\ Count(queue', held[w]) = Count(queue, held[w]) + 1
      ]_vars

\* ------------------------------------------------------------------------
\* The worker's claim loop (spec 4, Crawl Worker): IDLE, CLAIMING,
\* PROCESSING, DRAINED, ABORTED.  No file of src/ holds this loop; it is
\* modelled from the specification, on the queue primitives of init_queue.py
\* ------------------------------------------------------------------------

\* the state after the n-th consecutive empty claim: wait and retry once,
\* then DRAINED
after_empty(n) == IF n >= 2 THEN "drained" ELSE "backoff"

\* IDLE -> CLAIMING
BeginClaiming(w) ==
    /\ cstate[w] = "idle"
    /\ cstate' = [cstate EXCEPT ![w] = "claiming"]
    /\ UNCHANGED <<registryVars, empties, REDIS_HOST, recent_results, monitorVars,
                   roundVars, save_log, faults>>
    /\ UNCHANGED <<storeVars, workerVars, queueVars, ctlVars>>

\* CLAIMING: pop a unit from the queue; a unit goes to PROCESSING, an empty
\* reply counts as one more consecutive empty claim
ClaimOrWait(w) ==
    /\ cstate[w] = "claiming"
    /\ IF queue # <<>>
       THEN /\ held' = [held EXCEPT ![w] = Head(queue)]
            /\ queue' = lpop(queue)
            /\ solo' = DisturbAll
            /\ cstate' = [cstate EXCEPT ![w] = "processing"]
            /\ empties' = [empties EXCEPT ![w] = 0]
       ELSE /\ UNCHANGED <<held, queue, solo>>
            /\ cstate' = [cstate EXCEPT ![w] = after_empty(empties[w] + 1)]
            /\ empties' = [empties EXCEPT ![w] = @ + 1]
    /\ claim_log' = Append(claim_log, IF queue # <<>> THEN Head(queue) ELSE <<>>)
    /\ UNCHANGED <<ID_RANGE_START, ID_RANGE_END, CHUNK_SIZE, ipc, clear,
                   current_len, chunks, push_index, consumed, loaded, push_log, releases>>
    /\ UNCHANGED <<registryVars, REDIS_HOST, recent_results, monitorVars, roundVars,
                   save_log, faults>>
    /\ UNCHANGED <<storeVars, workerVars, ctlVars>>

\* the fixed delay after an empty claim has passed: claim once more
BackoffElapsed(w) ==
    /\ cstate[w] = "backoff"
    /\ cstate' = [cstate EXCEPT ![w] = "claiming"]
    /\ UNCHANGED <<registryVars, empties, REDIS_HOST, recent_results, monitorVars,
                   roundVars, save_log, faults>>
    /\ UNCHANGED <<storeVars, workerVars, queueVars, ctlVars>>

\* PROCESSING -> CLAIMING: the unit is fully processed and discarded
ProcessUnit(w) ==
    /\ cstate[w] = "processing"
    /\ consumed' = consumed (+) SetToBag({held[w]})
    /\ held' = [held EXCEPT ![w] = <<>>]
    /\ cstate' = [cstate EXCEPT ![w] = "claiming"]
    /\ UNCHANGED <<ID_RANGE_START, ID_RANGE_END, CHUNK_SIZE, queue, ipc, clear,
                   current_len, chunks, push_index, solo, loaded, push_log, claim_log,
                   releases>>
    /\ UNCHANGED <<registryVars, empties, REDIS_HOST, recent_results, monitorVars,
                   roundVars, save_log, faults>>
    /\ UNCHANGED <<storeVars, workerVars, ctlVars>>

\* PROCESSING -> ABORTED: the node is interrupted and releases its unit to
\* the tail of the queue
AbortRelease(w) ==
    /\ cstate[w] = "processing"
    /\ queue' = rpush(queue, <<held[w]>>)
    /\ push_log' = Append(push_log, held[w])
    /\ releases' = releases + 1
    /\ held' = [held EXCEPT ![w] = <<>>]
    /\ solo' = DisturbAll
    /\ cstate' = [cstate EXCEPT ![w] = "aborted"]
    /\ UNCHANGED <<ID_RANGE_START, ID_RANGE_END, CHUNK_SIZE, ipc, clear,
                   current_len, chunks, push_index, consumed, loaded, claim_log>>
    /\ UNCHANGED <<registryVars, empties, REDIS_HOST, recent_results, monitorVars,
                   roundVars, save_log, faults>>
    /\ UNCHANGED <<storeVars, workerVars, ctlVars>>

\* the queue as an initialisation of one of QueueConfigs loaded it
InitDrain ==
    /\ \E cfg \in QueueConfigs :
          /\ ID_RANGE_START = cfg[1]
          /\ ID_RANGE_END = cfg[2]
          /\ CHUNK_SIZE = cfg[3]
    /\ InitQueueRest

NextDrain ==
    \/ \E w \in Workers : BeginClaiming(w)
    \/ \E w \in Workers : ClaimOrWait(w)
    \/ \E w \in Workers : BackoffElapsed(w)
    \/ \E w \in Workers : ProcessUnit(w)
    \/ \E w \in Workers : AbortRelease(w)

SpecDrain == InitDrain /\ [][NextDrain]_vars

is_product_seen(w, pid, f) ==
    pid \in local_seen_ids[w] \/ (use_redis[w] /\ is_seen(w, pid, f))

\* is_product_seen then, for a record not seen, mark_product_seen and the
\* append of fetch_one (main.py 302-308), run to the end by worker w with no
\* other coroutine in between: the worker's memory afterwards
check_and_mark(w, pid) ==
    IF is_product_seen(w, pid, "ok") THEN Mem(w)
    ELSE AfterMark([local |-> local_seen_ids[w] \cup {pid},
                    buffer |-> products_buffer[w],
                    unique |-> unique_products[w]],
                   pid, add_seen(w, pid, "ok"))

\* the same identifier is checked and marked by the standalone worker w1 and
\* by the fleet worker w2
CheckAndMarkBoth(pid) ==
    /\ Len(hist) < 2 * MaxCalls
    /\ hist' = hist \o <<Call("is_product_seen", "w1", <<pid>>, "ok",
                              is_product_seen("w1", pid, "ok"), 0),
                         Call("is_product_seen", "w2", <<pid>>, "ok",
                              is_product_seen("w2", pid, "ok"), 0)>>
    /\ local_seen_ids' = [w \in Workers |-> check_and_mark(w, pid).local]
    /\ products_buffer' = [w \in Workers |-> check_and_mark(w, pid).buffer]
    /\ unique_products' = [w \in Workers |-> check_and_mark(w, pid).unique]
    /\ seen_ids' = IF is_product_seen("w2", pid, "ok") THEN seen_ids
                   ELSE add_seen_store("w2", pid, "ok")
    /\ UNCHANGED <<connected, wpc, use_redis, last_save_count, target, task,
                   output_file, seen_ids_file, rounds, life_start>>
    /\ UNCHANGED <<queueVars, ctlVars, auxVars>>

\* w1 runs standalone on the set ids; w2 runs in fleet mode against a
\* connected store holding ids, its own mirror holding the part of ids it
\* loaded from its local file (and synced to the store) at startup
InitVerdicts ==
    /\ InitQueueIdle
    /\ InitController
    /\ InitAux
    /\ \E ids \in SUBSET PRODUCT_IDS, mirror \in SUBSET PRODUCT_IDS :
          /\ mirror \subseteq ids
          /\ seen_ids = ids
          /\ local_seen_ids = [w \in Workers |-> IF w = "w1" THEN ids ELSE mirror]
          /\ unique_products = [w \in Workers |-> Cardinality(local_seen_ids[w])]
          /\ last_save_count = unique_products
    /\ connected = [w \in Workers |-> w = "w2"]
    /\ use_redis = [w \in Workers |-> w = "w2"]
    /\ hist = <<>>
    /\ wpc = [w \in Workers |-> "run"]
    /\ products_buffer = [w \in Workers |-> <<>>]
    /\ task = [w \in Workers |-> [t \in Tasks |-> NoTask]]
    /\ output_file = [w \in Workers |-> <<>>]
    /\ seen_ids_file = [w \in Workers |-> <<>>]
    /\ rounds = [w \in Workers |-> 0]
    /\ life_start = [w \in Workers |-> 0]
    /\ target = [w \in Workers |-> MaxTarget]

NextVerdicts == \E pid \in PRODUCT_IDS : CheckAndMarkBoth(pid)

SpecVerdicts == InitVerdicts /\ [][NextVerdicts]_vars

\* C20: for every sequence of check-and-mark operations one worker issues
\* one after the other, the verdict (seen or new) of each operation in
\* standalone mode equals the verdict in fleet mode against a connected
\* store that started with the same contents; so do the records judged new.
C20_SameVerdicts ==
    /\ \A k \in 1..Len(hist) :
          (k % 2 = 1) => /\ hist[k].pids = hist[k+1].pids
                         /\ hist[k].retb = hist[k+1].retb
    /\ \A pid \in PRODUCT_IDS :
          is_product_seen("w1", pid, "ok") = is_product_seen("w2", pid, "ok")
    /\ products_buffer["w1"] = products_buffer["w2"]

\* three operations: a duplicate known to the fleet worker from the store
\* only, a new identifier, the same identifier again
C20_Witness ==
    /\ Len(hist) = 6
    /\ hist[1].retb /\ hist[2].retb
    /\ ~hist[3].retb /\ ~hist[4].retb
    /\ hist[5].pids = hist[3].pids /\ hist[5].retb /\ hist[6].retb
    /\ local_seen_ids["w2"] # local_seen_ids["w1"]
\* ------------------------------------------------------------------------
\* adjust_rate on its own (C26): the method applied to any counters
\* ------------------------------------------------------------------------

\* the values the counters, the window and the batch size are drawn from
SampleCounts == {0, 1, 3, 5, 9, 10, 60}
SampleWindows == {<<>>, <<1>>, <<3>>, <<6>>, <<1, 30>>}
SampleSizes == {min_batch_size, 50, max_batch_size}

\* main.py 244-260, adjust_rate on the controller as it stands
AdjustRate ==
    LET m == Meter(response_times, success_count, error_count) IN
    /\ current_batch_size' = adjust_rate(current_batch_size, m)
    /\ success_count' = IF CountersExpired(m) THEN 0 ELSE success_count
    /\ error_count' = IF CountersExpired(m) THEN 0 ELSE error_count
    /\ streak' = NextStreak(m)
    /\ UNCHANGED <<response_times, floored, last_pattern, switches>>
    /\ UNCHANGED <<storeVars, workerVars, queueVars, auxVars>>

InitRate ==
    /\ current_batch_size \in SampleSizes
    /\ response_times \in SampleWindows
    /\ success_count \in SampleCounts
    /\ error_count \in SampleCounts
    /\ streak = 0
    /\ floored = FALSE
    /\ last_pattern = <<>>
    /\ switches = 0
    /\ InitAux
    /\ InitQueueIdle
    /\ seen_ids = {}
    /\ connected = [c \in Workers |-> FALSE]
    /\ hist = <<>>
    /\ InitWorkers
    /\ target = [w \in Workers |-> 1]

NextRate == AdjustRate

SpecRate == InitRate /\ [][NextRate]_vars

\* C26: the error rate is 0 while fewer than 10 outcomes have been counted
\* since the last reset and error_count / (success_count + error_count)
\* otherwise; adjust_rate never shrinks the batch because of errors among
\* fewer than 10 outcomes.
C26_ErrorRateNeedsTenSamples ==
    /\ [](LET total == success_count + error_count IN
          get_error_rate(Meter(response_times, success_count, error_count))
             = IF total < 10 THEN <<0, 1>> ELSE <<error_count, total>>)
    /\ [][(/\ AdjustRate
           /\ success_count + error_count < 10
           /\ Sum(response_times) <= throttle_threshold * Len(response_times))
             => current_batch_size' >= current_batch_size]_vars

\* nine outcomes, all of them errors, at a low latency: the adjustment took
\* the error rate for 0 and grew the batch
C26_Witness ==
    /\ success_count = 0
    /\ error_count = 9
    /\ response_times = <<1>>
    /\ streak < 0
    /\ current_batch_size = 55
\* ------------------------------------------------------------------------
\* Fleet monitor: monitor_nodes.py main loop (C21)
\* ------------------------------------------------------------------------

\* monitor_nodes.py 85, 83: the ages in seconds above which an entry is
\* shown stale and offline
STALE_AGE == 30
OFFLINE_AGE == 60

\* the 'rate' a heartbeat may report and the steps of the clock
Rates == {1, 2}
Delays == {10, 30}

\* the monitor is followed for this long
MonitorHorizon == 70

\* mutant: an entry exactly at a threshold age falls in the older class
classify_at_threshold(age) ==
    IF age >= OFFLINE_AGE THEN "offline"
    ELSE IF age >= STALE_AGE THEN "stale"
    ELSE "active"

\* monitor_nodes.py 83-88: the status shown for an entry of this age
classify(age) ==
    IF age > OFFLINE_AGE THEN "offline"
    ELSE IF age > STALE_AGE THEN "stale"
    ELSE "active"

\* monitor_nodes.py 60-106: the table printed from the seen set and the
\* registry as read at time t
table(ids, nodes, rate, t) ==
    LET status == [n \in DOMAIN nodes |-> classify(t - nodes[n])]
        active == {n \in DOMAIN nodes : status[n] = "active"} IN
    [total_ids |-> Cardinality(ids),
     status |-> status,
     active_nodes |-> Cardinality(active),
     total_rate |-> SumOver(active, rate)]

\* run(), main.py 381-382 with get_stats (main.py 341-350): the heartbeat of
\* node w reporting this rate
HeartbeatStats(w, f, rate) ==
    /\ update_node_status(w, f)
    /\ node_rate' = IF connected[w] /\ HsetDone(f)
                    THEN [node_rate EXCEPT ![w] = rate]
                    ELSE node_rate
    /\ UNCHANGED <<now, drainVars, REDIS_HOST, recent_results, save_log, faults, display,
                   roundVars>>
    /\ UNCHANGED <<storeVars, workerVars, queueVars, ctlVars>>

\* d seconds pass; Redis deletes a key whose expiry time has come
Pass(d) ==
    /\ now + d <= MonitorHorizon
    /\ now' = now + d
    /\ IF expire_at # 0 - 1 /\ now + d >= expire_at
       THEN node_status' = <<>> /\ expire_at' = 0 - 1
       ELSE UNCHANGED <<node_status, expire_at>>
    /\ UNCHANGED <<drainVars, REDIS_HOST, recent_results, save_log, faults, monitorVars,
                   roundVars>>
    /\ UNCHANGED <<storeVars, workerVars, queueVars, ctlVars>>

\* monitor_nodes.py 58-110: one refresh of the monitor; it reads the store
\* and prints
Refresh ==
    /\ display' = table(seen_ids, node_status, node_rate, now)
    /\ UNCHANGED <<registryVars, drainVars, REDIS_HOST, recent_results, save_log, faults,
                   node_rate,
                   roundVars>>
    /\ UNCHANGED <<storeVars, workerVars, queueVars, ctlVars>>

InitMonitor ==
    /\ InitQueueIdle
    /\ seen_ids = {}
    /\ connected = [c \in Workers |-> TRUE]
    /\ hist = <<>>
    /\ InitWorkers
    /\ InitController
    /\ InitAux
    /\ target = [w \in Workers |-> 1]

NextMonitor ==
    \/ \E w \in Workers, f \in StatusOutcomes, rate \in Rates : HeartbeatStats(w, f, rate)
    \/ \E d \in Delays : Pass(d)
    \/ Refresh

SpecMonitor == InitMonitor /\ [][NextMonitor]_vars

\* the table shows the registry as it stands now
Fresh == display # <<>> /\ display = table(seen_ids, node_status, node_rate, now)

\* C21: the monitor shows each registered node in exactly one class, decided
\* at read time by the age of its last update alone: active up to 30 s,
\* stale above 30 s and up to 60 s, offline above 60 s; the active-node count
\* and the total rate are taken over the active nodes only; a refresh writes
\* nothing to the registry.
C21_ClassifiedByAge ==
    /\ [](Fresh =>
            /\ DOMAIN display.status = DOMAIN node_status
            /\ \A n \in DOMAIN node_status :
                  LET age == now - node_status[n] IN
                  /\ display.status[n] = "active" <=> age <= 30
                  /\ display.status[n] = "stale" <=> (30 < age /\ age <= 60)
                  /\ display.status[n] = "offline" <=> age > 60
            /\ LET active == {n \in DOMAIN node_status : now - node_status[n] <= 30} IN
               /\ display.active_nodes = Cardinality(active)
               /\ display.total_rate = SumOver(active, node_rate))
    /\ [][Refresh => UNCHANGED <<node_status, node_rate, expire_at>>]_vars

\* the table shows one node active at exactly the stale threshold and the
\* other not active, and counts the rate of the active one only
C21_Witness ==
    /\ Fresh
    /\ DOMAIN node_status = Workers
    /\ now - node_status["w1"] = STALE_AGE
    /\ display.status["w2"] # "active"
    /\ node_rate["w2"] > 0
    /\ display.active_nodes = 1
    /\ display.total_rate = node_rate["w1"]
\* ------------------------------------------------------------------------
\* One worker's rounds, fetch by fetch (C28, C30): fetch_batch gathers
\* current_batch_size fetch_one coroutines, then adjust_rate, then the rest
\* of the loop body of run()
\* ------------------------------------------------------------------------

\* what a fetch_one meets: a 200 response with these products, the product
\* at index bad being one transform_product raises on (0: none); a 200
\* response whose body response.json() raises on; another status; an
\* exception before any response (timeout, connection error)
Met(kind, products, bad) == [kind |-> kind, products |-> products, bad |-> bad]

FetchOutcomes ==
    {Met("ok", prods, 0) : prods \in FaultResponses}
       \cup {Met("ok", <<"7">>, 1), Met("ok", <<"7", "9">>, 2),
             Met("json", <<>>, 0), Met("status", <<>>, 0), Met("raise", <<>>, 0)}

\* a 200 response every product of which can be handled
Plain(o) == o.kind = "ok" /\ o.bad = 0

\* every response arrives after this many seconds
Elapsed == 1

\* fetches of a run that meet anything but a 200 response handled to its end
MaxBadFetches == 1

\* main.py 299-311, the loop over the products of a 200 response, standalone:
\* the memory it leaves and whether it raised.  A product that is new is
\* marked seen (main.py 305) before transform_product is called (main.py 306).
handle(m, products, bad) ==
    IF bad = 0 THEN [mem |-> ProductLoop(FALSE, m, products).mem, raised |-> FALSE]
    ELSE LET before == ProductLoop(FALSE, m, SubSeq(products, 1, bad - 1)).mem
             pid == products[bad] IN
         IF pid \in before.local
         THEN [mem |-> ProductLoop(FALSE, before,
                                   SubSeq(products, bad, Len(products))).mem,
               raised |-> FALSE]
         ELSE [mem |-> [before EXCEPT !.local = @ \cup {pid}], raised |-> TRUE]

\* main.py 277-320, fetch_one meeting o: the memory and the measurements it
\* leaves.  The except clause (main.py 317-320) counts an error and appends
\* REQUEST_TIMEOUT whatever the try block did before it raised.
fetch_one(m, c, o) ==
    LET h == handle(m, o.products, o.bad)
        raised == o.kind \in {"json", "raise"} \/ (o.kind = "ok" /\ h.raised)
        samples == (IF o.kind = "raise" THEN <<>> ELSE <<Elapsed>>)
                      \o (IF raised THEN <<REQUEST_TIMEOUT>> ELSE <<>>) IN
    [mem |-> IF o.kind = "ok" THEN h.mem ELSE m,
     meter |-> Meter(deque_append(c.response_times, samples),
                     c.success_count + (IF o.kind = "ok" THEN 1 ELSE 0),
                     c.error_count + (IF o.kind = "status" \/ raised THEN 1 ELSE 0))]

\* mutant: gather returns when the first coroutine has returned
gathered_first == pending < current_batch_size

\* main.py 267: await asyncio.gather(*tasks) returns when every coroutine has
gathered == pending = 0

\* fetch_batch, main.py 263-267: the round's coroutines are created
IssueRound(w) ==
    /\ wpc[w] = "run"
    /\ unique_products[w] < target[w]
    /\ rounds[w] < MaxRounds
    /\ rounds' = [rounds EXCEPT ![w] = @ + 1]
    /\ wpc' = [wpc EXCEPT ![w] = "round"]
    /\ pending' = pending + current_batch_size
    /\ adjusted' = 0
    /\ UNCHANGED <<storeVars, use_redis, local_seen_ids, products_buffer,
                   unique_products, last_save_count, target, task, output_file,
                   seen_ids_file, life_start>>
    /\ UNCHANGED <<queueVars, ctlVars, registryVars, drainVars, REDIS_HOST, recent_results,
                   save_log,
                   faults, monitorVars>>

\* fetch_one, main.py 277-320: one of the round's coroutines runs and returns
FetchOneReturns(w, o) ==
    /\ wpc[w] = "round"
    /\ pending > 0
    /\ \A t \in Tasks : task[w][t] = NoTask
    /\ ~Plain(o) => faults < MaxBadFetches
    /\ Fails(~Plain(o), 1)
    /\ LET r == fetch_one(Mem(w), Meter(response_times, success_count, error_count), o) IN
       /\ local_seen_ids' = [local_seen_ids EXCEPT ![w] = r.mem.local]
       /\ products_buffer' = [products_buffer EXCEPT ![w] = r.mem.buffer]
       /\ unique_products' = [unique_products EXCEPT ![w] = r.mem.unique]
       /\ response_times' = r.meter.response_times
       /\ success_count' = r.meter.success_count
       /\ error_count' = r.meter.error_count
    /\ pending' = pending - 1
    /\ UNCHANGED <<storeVars, wpc, use_redis, last_save_count, target, task,
                   output_file, seen_ids_file, rounds, life_start>>
    /\ UNCHANGED <<queueVars, current_batch_size, streak, floored, last_pattern,
                   switches, registryVars, drainVars, REDIS_HOST, recent_results, save_log,
                   monitorVars, adjusted>>

\* fetch_batch, main.py 267-275: gather has returned, adjust_rate runs
GatherReturns(w) ==
    /\ wpc[w] = "round"
    /\ gathered
    /\ \A t \in Tasks : task[w][t] = NoTask
    /\ task' = [task EXCEPT ![w] = [t \in Tasks |-> DoneTask]]
    /\ LET m == Meter(response_times, success_count, error_count) IN
       /\ current_batch_size' = adjust_rate(current_batch_size, m)
       /\ success_count' = IF CountersExpired(m) THEN 0 ELSE success_count
       /\ error_count' = IF CountersExpired(m) THEN 0 ELSE error_count
    /\ adjusted' = adjusted + 1
    /\ UNCHANGED <<storeVars, wpc, use_redis, local_seen_ids, products_buffer,
                   unique_products, last_save_count, target, output_file,
                   seen_ids_file, rounds, life_start>>
    /\ UNCHANGED <<queueVars, response_times, streak, floored, last_pattern,
                   switches, registryVars, drainVars, REDIS_HOST, recent_results, save_log, faults,
                   monitorVars, pending>>

\* the controller after rounds of failed fetches answered in Elapsed seconds
\* have driven the batch to the minimum and the counters have just started
\* over (a state of SpecCtl)
ThrottledController ==
    /\ current_batch_size = min_batch_size
    /\ response_times = [k \in 1..response_times_maxlen |-> Elapsed]
    /\ success_count = 0
    /\ error_count = 0

\* a standalone worker in its loop, nothing found yet
InitRound ==
    /\ InitQueueIdle
    /\ seen_ids = {}
    /\ connected = [c \in Workers |-> FALSE]
    /\ hist = <<>>
    /\ InitWorkers
    /\ ThrottledController
    /\ streak = 0
    /\ floored = FALSE
    /\ last_pattern = <<>>
    /\ switches = 0
    /\ InitAux
    /\ \E n \in FaultTargets : target = [w \in Workers |-> IF w \in OneWorker THEN n ELSE 1]

NextRound ==
    \/ \E w \in OneWorker : LoadSeenIdsF(w, TRUE, FALSE)
    \/ \E w \in OneWorker : IssueRound(w)
    \/ \E w \in OneWorker, o \in FetchOutcomes : FetchOneReturns(w, o)
    \/ \E w \in OneWorker : GatherReturns(w)
    \/ \E w \in OneWorker : \E f \in SaveOutcomes(Len(products_buffer[w])) :
          EndRoundF(w, "ok", f)
    \/ \E w \in OneWorker : \E f \in SaveOutcomes(Len(products_buffer[w])) :
          FinalSaveF(w, f)

SpecRound == InitRound /\ [][NextRound]_vars

\* fetch_one meeting o fails: no 200 response, or an exception while the
\* response is handled
Failed(w, o) ==
    \/ o.kind \in {"json", "status", "raise"}
    \/ o.kind = "ok" /\ handle(Mem(w), o.products, o.bad).raised

\* C28: a round issues exactly current_batch_size fetches, the value when the
\* round starts; no fetch of the next round is issued before every fetch of
\* this round has returned; adjust_rate runs exactly once between two
\* consecutive rounds, after the last fetch of the first.
C28_RoundsDoNotOverlap ==
    [][\A w \in OneWorker :
          /\ IssueRound(w)
                => /\ pending = 0
                   /\ pending' = current_batch_size
                   /\ rounds[w] > 0 => adjusted = 1
          /\ (\E o \in FetchOutcomes : FetchOneReturns(w, o)) => adjusted = 0
          /\ GatherReturns(w) => pending = 0 /\ adjusted = 0]_vars

\* the second round is under way with the batch size the adjustment after
\* the first round grew it to
C28_Witness ==
    /\ rounds["w1"] = 2
    /\ current_batch_size > min_batch_size
    /\ adjusted = 0
    /\ pending > 0
    /\ pending < current_batch_size

\* C30: every fetch increments exactly one of the success and error counters
\* by one; a failed fetch (timeout, connection error, non-200 status, exception
\* while handling the response) increments only the error counter, adds
\* nothing to the buffer, and neither fails the other fetches of its round nor
\* stops the worker.
C30_OneCounterPerFetch ==
    [][\A w \in OneWorker, o \in FetchOutcomes :
          FetchOneReturns(w, o)
             => /\ success_count' + error_count' = success_count + error_count + 1
                /\ Failed(w, o)
                      => /\ success_count' = success_count
                         /\ error_count' = error_count + 1
                         /\ products_buffer' = products_buffer
                /\ wpc'[w] = "round"
                /\ pending' = pending - 1]_vars

\* ------------------------------------------------------------------------
\* The loop body after a round (C29), checked under SpecFaults
\* ------------------------------------------------------------------------

\* C29: after every completed round and before the next one starts, a worker
\* in fleet mode sends one heartbeat, and whenever the buffer holds at least
\* SAVE_INTERVAL records after a round, a flush is attempted before the next
\* round starts.
C29_HeartbeatAndFlushEachRound ==
    [][\A w \in OneWorker, hf \in StatusOutcomes :
          \A f \in SaveOutcomes(Len(products_buffer[w])) :
             EndRoundF(w, hf, f)
                => /\ (use_redis[w] /\ hf = "ok")
                         => /\ w \in DOMAIN node_status'
                            /\ node_status'[w] = now
                   /\ Len(products_buffer[w]) >= SAVE_INTERVAL
                         => Len(save_log'[w]) = Len(save_log[w]) + 1]_vars

\* ------------------------------------------------------------------------
\* Local mirror before shared store (C31), checked under SpecMirror
\* ------------------------------------------------------------------------

\* one fleet worker on a shared store that holds what other nodes have marked
InitMirror ==
    /\ InitQueueIdle
    /\ seen_ids \in SUBSET PRODUCT_IDS
    /\ connected = [c \in Workers |-> FALSE]
    /\ hist = <<>>
    /\ InitWorkers
    /\ InitController
    /\ InitAux
    /\ \E n \in 1..MaxTarget : target = [w \in Workers |-> IF w \in OneWorker THEN n ELSE 1]

NextMirror ==
    \/ \E w \in OneWorker : LoadSeenIds(w, TRUE)
    \/ \E w \in OneWorker : SyncLocalToRedis(w)
    \/ \E w \in OneWorker : FetchBatch(w)
    \/ \E w \in OneWorker, t \in Tasks, prods \in Responses : FetchOneOk(w, t, prods)
    \/ \E w \in OneWorker, t \in Tasks : FetchOneFail(w, t)
    \/ \E w \in OneWorker, t \in Tasks : IsProductSeenReply(w, t)
    \/ \E w \in OneWorker, t \in Tasks : MarkProductSeenReply(w, t)
    \/ \E w \in OneWorker : EndRound(w)
    \/ \E w \in OneWorker : FinalSave(w)
    \/ \E w \in OneWorker : Interrupt(w)
    \/ \E w \in OneWorker : Restart(w)

SpecMirror == InitMirror /\ [][NextMirror]_vars

\* C31: in fleet mode a check of an identifier of the local mirror answers
\* "seen" without a shared-store operation: the step that handles a response
\* touches neither store nor buffer and leaves the coroutine waiting on the
\* store only at an identifier absent from the mirror, the identifiers of
\* the mirror before it being answered in that step; marking a new
\* identifier puts it in the mirror and in the shared store.
C31_MirrorFirstThenStore ==
    [][\A w \in Workers, t \in Tasks :
          /\ (use_redis[w] /\ task[w][t].pc = "post" /\ task'[w][t] # task[w][t]
                                                   /\ task'[w][t] # NoTask)
                => /\ UNCHANGED <<seen_ids, hist>>
                   /\ products_buffer'[w] = products_buffer[w]
                   /\ unique_products'[w] = unique_products[w]
          /\ (task'[w][t].pc = "is_seen" /\ task'[w][t] # task[w][t])
                => /\ use_redis[w]
                   /\ Head(task'[w][t].products) \notin local_seen_ids'[w]
          /\ (task[w][t].pc = "add_seen" /\ task'[w][t] # task[w][t]
                                         /\ task'[w][t] # NoTask)
                => /\ Head(task[w][t].products) \in local_seen_ids'[w]
                   /\ Head(task[w][t].products) \in seen_ids']_vars

\* a fleet worker has marked "7", which is in its mirror, in the shared store
\* and in its buffer, has answered a second "7" from the mirror, and is
\* asking the shared store about "9"
C31_Witness ==
    /\ use_redis["w1"]
    /\ "7" \in local_seen_ids["w1"]
    /\ "7" \in seen_ids
    /\ products_buffer["w1"] = <<"7">>
    /\ rounds["w1"] = 2
    /\ task["w1"]["t1"] = DoneTask
    /\ task["w1"]["t2"] = [pc |-> "is_seen", products |-> <<"9">>]

\* ------------------------------------------------------------------------
\* The run loop's exits (C32): target reached, auto-stop, target met at start
\* ------------------------------------------------------------------------

\* config.py 20, 19
DUPLICATE_CHECK_WINDOW == 1000
MAX_DUPLICATE_RATIO == <<95, 100>>

\* deque(maxlen) after the appends of xs in turn
deque_extend(d, xs, maxlen) ==
    LET all == d \o xs IN
    IF Len(all) <= maxlen THEN all
    ELSE SubSeq(all, Len(all) - maxlen + 1, Len(all))

\* main.py 227-231, the ratio as numerator and denominator
get_duplicate_ratio(rr) ==
    IF Len(rr) < 100 THEN <<0, 1>> ELSE <<Sum(rr), Len(rr)>>

\* mutant: the window need not be full
auto_stop_any_window(rr) ==
    ~Below(get_duplicate_ratio(rr), MAX_DUPLICATE_RATIO[1], MAX_DUPLICATE_RATIO[2])

\* main.py 404: dup_ratio >= MAX_DUPLICATE_RATIO and
\* len(self.recent_results) >= DUPLICATE_CHECK_WINDOW
auto_stop(rr) ==
    /\ ~Below(get_duplicate_ratio(rr), MAX_DUPLICATE_RATIO[1], MAX_DUPLICATE_RATIO[2])
    /\ Len(rr) >= DUPLICATE_CHECK_WINDOW

\* what the fetches of a round bring: so many records with identifiers not
\* seen before, then so many duplicates; and the targets given with --target
StopRounds ==
    {[new |-> 0, dup |-> 0], [new |-> 1, dup |-> 98], [new |-> 0, dup |-> 1],
     [new |-> 0, dup |-> 950], [new |-> 50, dup |-> 950], [new |-> 51, dup |-> 949],
     [new |-> 1, dup |-> 999]}

StopTargets == {2, 60}

\* main.py 309, 311: what the products of round r append to recent_results
results_of(r) == [k \in 1..(r.new + r.dup) |-> IF k <= r.new THEN 0 ELSE 1]

\* run(), main.py 373-408, one pass of the loop of a standalone worker whose
\* round brings r: the product loops of fetch_one, the periodic save ending
\* as f, the auto-stop check.  The identifiers are numbered as they are found.
LoopPass(w, r, f) ==
    LET n == unique_products[w]
        ids == [k \in 1..r.new |-> ToString(n + k)]
        buffer == products_buffer[w] \o ids
        rr == deque_extend(recent_results[w], results_of(r), DUPLICATE_CHECK_WINDOW)
        saving == n + r.new - last_save_count[w] >= SAVE_INTERVAL IN
    /\ wpc[w] = "run"
    /\ ~use_redis[w]
    /\ n < target[w]
    /\ rounds[w] < MaxRounds
    /\ r.dup > 0 => n + r.new > 0
    /\ f \in SaveOutcomes(IF saving THEN Len(buffer) ELSE 0)
    /\ rounds' = [rounds EXCEPT ![w] = @ + 1]
    /\ local_seen_ids' = [local_seen_ids EXCEPT ![w] = @ \cup Range(ids)]
    /\ unique_products' = [unique_products EXCEPT ![w] = n + r.new]
    /\ recent_results' = [recent_results EXCEPT ![w] = rr]
    /\ IF saving
       THEN /\ output_file' = [output_file EXCEPT ![w] = save_output(@, buffer, f)]
            /\ seen_ids_file' = [seen_ids_file EXCEPT ![w] = save_seen(@, buffer, f)]
            /\ products_buffer' = [products_buffer EXCEPT ![w] = save_left(buffer, f)]
            /\ save_log' = [save_log EXCEPT ![w] =
                              Append(@, [held |-> buffer, ok |-> f[1] = "ok"])]
            /\ last_save_count' = [last_save_count EXCEPT ![w] = n + r.new]
       ELSE /\ products_buffer' = [products_buffer EXCEPT ![w] = buffer]
            /\ UNCHANGED <<output_file, seen_ids_file, save_log, last_save_count>>
    /\ Fails(f[1] # "ok", 1)
    /\ wpc' = [wpc EXCEPT ![w] = IF auto_stop(rr) THEN "stopped" ELSE "run"]
    /\ UNCHANGED <<storeVars, use_redis, target, task, life_start>>
    /\ UNCHANGED <<queueVars, ctlVars, registryVars, drainVars, REDIS_HOST,
                   monitorVars, roundVars>>

\* run(), main.py 405-412: the loop was left by the auto-stop break; final save
AutoStopExit(w, f) ==
    /\ wpc[w] = "stopped"
    /\ SaveBufferF(w, f)
    /\ Fails(f[1] # "ok", 1)
    /\ wpc' = [wpc EXCEPT ![w] = "exit"]
    /\ UNCHANGED <<storeVars, use_redis, local_seen_ids, unique_products,
                   last_save_count, target, task, rounds, life_start>>
    /\ UNCHANGED <<queueVars, ctlVars, registryVars, drainVars, REDIS_HOST,
                   recent_results, monitorVars, roundVars>>

\* a standalone node started with --target, with what an earlier run of it
\* left on disk
InitStop ==
    /\ InitQueueIdle
    /\ seen_ids = {}
    /\ connected = [c \in Workers |-> FALSE]
    /\ hist = <<>>
    /\ wpc = [w \in Workers |-> "start"]
    /\ use_redis = [w \in Workers |-> FALSE]
    /\ local_seen_ids = [w \in Workers |-> {}]
    /\ products_buffer = [w \in Workers |-> <<>>]
    /\ unique_products = [w \in Workers |-> 0]
    /\ last_save_count = [w \in Workers |-> 0]
    /\ task = [w \in Workers |-> [t \in Tasks |-> NoTask]]
    /\ \E k \in 0..2 :
          /\ seen_ids_file = [w \in Workers |-> IF w \in OneWorker
                                                 THEN [i \in 1..k |-> ToString(i)] ELSE <<>>]
          /\ output_file = [w \in Workers |-> IF w \in OneWorker /\ k > 0
                                               THEN <<HEADER>> \o [i \in 1..k |-> ToString(i)]
                                               ELSE <<>>]
    /\ rounds = [w \in Workers |-> 0]
    /\ life_start = [w \in Workers |-> 0]
    /\ InitController
    /\ InitAux
    /\ \E n \in StopTargets : target = [w \in Workers |-> IF w \in OneWorker THEN n ELSE 1]

\* the endings of save_buffer tried here: a write that raises does so on the
\* first or on the second row
StopSaveOutcomes(n) == {f \in SaveOutcomes(n) : f[2] <= 1}

NextStop ==
    \/ \E w \in OneWorker, read_ok \in BOOLEAN : LoadSeenIdsF(w, read_ok, FALSE)
    \/ \E w \in OneWorker, r \in StopRounds :
          \E f \in StopSaveOutcomes(Len(products_buffer[w]) + r.new) : LoopPass(w, r, f)
    \/ \E w \in OneWorker :
          \E f \in StopSaveOutcomes(Len(products_buffer[w])) : FinalSaveF(w, f)
    \/ \E w \in OneWorker :
          \E f \in StopSaveOutcomes(Len(products_buffer[w])) : AutoStopExit(w, f)

SpecStop == InitStop /\ [][NextStop]_vars

C33_MarkedIdHasRecord ==
    \A pid \in seen_ids :
       \E w \in Workers :
          \/ pid \in Range(output_file[w])
          \/ wpc[w] # "exit" /\ pid \in Range(products_buffer[w])

\* ------------------------------------------------------------------------
\* Output file and seen-identifiers file (C34), checked under SpecFaults
\* ------------------------------------------------------------------------

\* C34: after any flush attempts, failed ones included, the identifiers in
\* the local seen-identifiers file are exactly the identifiers of the rows of
\* the output file, and on a standalone node no identifier has two rows.
C34_SeenFileMatchesOutput ==
    \A w \in OneWorker :
       /\ Range(seen_ids_file[w]) = Range(output_file[w]) \ {HEADER}
       /\ ~REDIS_HOST[w] => \A pid \in Range(output_file[w]) : Count(output_file[w], pid) = 1

\* ------------------------------------------------------------------------
\* Concurrent and repeated initialisation (C35, C36), checked under SpecQueue
\* ------------------------------------------------------------------------

\* run i, without clear, has found the queue empty
FoundEmpty(i) ==
    /\ ~clear[i]
    /\ ipc[i] \in {"push", "done", "crashed"}
    /\ current_len[i] = 0
    /\ chunks[i] # <<>>

\* C35: when two or more initialisations without clear run concurrently
\* against an empty queue, each work unit ends up in the queue at most once,
\* whatever the interleaving.
C35_ConcurrentInitNoDuplicate ==
    ((\A i \in Inits : FoundEmpty(i)) /\ releases = 0)
       => \A u \in Range(queue) : Count(queue, u) = 1

\* run i, without clear, stopped after pushing some of its batches
StoppedHalfway(i) ==
    /\ ~clear[i]
    /\ ipc[i] = "crashed"
    /\ 0 < push_index[i] /\ push_index[i] < Len(chunks[i])

\* C36: when an initialisation has stopped after pushing only some of its
\* batches, an initialisation without clear that comes to its end afterwards
\* leaves every unit of the range loaded exactly once.
C36_RerunCompletesLoad ==
    [][\A i, j \in Inits :
          (/\ StoppedHalfway(i)
           /\ ~clear[j]
           /\ ipc[j] \in {"llen", "push"} /\ ipc'[j] \in {"refused", "done"})
             => \A u \in Range(GenChunks(ID_RANGE_START, ID_RANGE_END, CHUNK_SIZE)) :
                   CopiesIn(u, loaded') = 1]_vars

\* ------------------------------------------------------------------------
\* Local mirror and shared store (C37), checked under SpecFaults
\* ------------------------------------------------------------------------

\* the identifiers a coroutine of worker w is marking at the moment
BeingMarked(w) ==
    {Head(task[w][t].products) : t \in {x \in Tasks : task[w][x].pc = "add_seen"}}

\* C37: in fleet mode with the store connected, once the startup sync has
\* finished, every identifier of the worker's local mirror whose mark
\* operation is completed is in the shared store, also when a shared-store
\* add has failed.
C37_MirrorWithinStore ==
    \A w \in Workers :
       (use_redis[w] /\ connected[w] /\ wpc[w] \in {"run", "round"})
          => (local_seen_ids[w] \ BeingMarked(w)) \subseteq seen_ids

\* ------------------------------------------------------------------------
\* The counter of unique products (C38), checked under SpecFleet
\* ------------------------------------------------------------------------

\* C38: between the rounds of fetches unique_products is the number of
\* identifiers in the local seen set, in standalone and in fleet mode, under
\* every interleaving of the concurrent fetches of a round.
C38_CounterIsMirrorSize ==
    \A w \in Workers :
       wpc[w] = "run" => unique_products[w] = Cardinality(local_seen_ids[w])

====
